---------------------------- MODULE Spec2Model ----------------------------
(***************************************************************************)
(* A model of the simulation engine of src/Apefighter.cxx: the Game        *)
(* object, the input handlers (handleTouch, handleTouchUp, the key         *)
(* handlers of main) and the per-frame update (updateGame).                *)
(*                                                                         *)
(* Numbers.  The program computes in float; the model computes in fixed    *)
(* point and truncates toward zero where the program would keep a          *)
(* fraction:                                                               *)
(*   time       1 = 0.01 s   (dt, every timer, gameTime)                   *)
(*   position   1 = 0.1 logical unit (x 0..7200, y 0..12800 on screen)     *)
(*   velocity   1 = 1 logical unit per second, so  dpos = v * dt \div 10   *)
(* Fields that only the drawing code reads (colours, radius, depth, bob,   *)
(* tilt, thrusterAnim, shakeAmt, menuAnim, gameoverTimer, stars, clouds,   *)
(* mountains) are left out.                                                *)
(***************************************************************************)
EXTENDS Integers, Sequences, FiniteSets, TLC

VARIABLES
    g,        \* the Game object
    pre,      \* the Game object before the last step (history)
    last,     \* the event the main loop handled last (history)
    stage,    \* the Game object at three points inside the last step (history)
    polled,   \* events handled since the last update of the main loop
    frames    \* frames run so far

vars == <<g, pre, last, stage, polled, frames>>

(***************************************************************************)
(* Bounds of the model                                                     *)
(***************************************************************************)
MaxLiveFrames == 45 \* frames of the long runs (2.25 s at the capped frame time)
MaxFrames == 2      \* frames explored from each initial state
MaxEvents == 1      \* events polled between two updates
DtMid     == 2      \* a frame time below the cap (0.02 s)

(***************************************************************************)
(* Program constants                                                       *)
(***************************************************************************)
SCREEN_W == 720
SCREEN_H == 1600
HUD_H    == 320
PLAY_H   == SCREEN_H - HUD_H
DT_CAP   == 5       \* 0.05 s

STATE_MENU     == "MENU"
STATE_PLAYING  == "PLAYING"
STATE_PAUSED   == "PAUSED"
STATE_GAMEOVER == "GAMEOVER"
STATE_WIN      == "WIN"
GameState == {STATE_MENU, STATE_PLAYING, STATE_PAUSED, STATE_GAMEOVER, STATE_WIN}

\* logical units to position units
Du(u) == 10 * u

(***************************************************************************)
(* Math helpers                                                            *)
(***************************************************************************)
Max(a, b) == IF a >= b THEN a ELSE b
Min(a, b) == IF a <= b THEN a ELSE b
Abs(a)    == IF a >= 0 THEN a ELSE -a

\* the quotient truncated toward zero (b > 0)
TDiv(a, b) == IF a >= 0 THEN a \div b ELSE -((-a) \div b)

clamp(v, lo, hi) == IF v < lo THEN lo ELSE IF v > hi THEN hi ELSE v

\* lerp(a, b, t) with t = tnum / 100
lerp(a, b, tnum) == a + TDiv((b - a) * tnum, 100)

RECURSIVE SqrtSearch(_, _, _)
SqrtSearch(n, lo, hi) ==
    IF lo >= hi THEN lo
    ELSE LET mid == (lo + hi + 1) \div 2
         IN  IF mid * mid <= n THEN SqrtSearch(n, mid, hi)
             ELSE SqrtSearch(n, lo, mid - 1)

\* sqrtf, rounded down
ISqrt(n) == SqrtSearch(n, 0, 46340)

dist2D(x1, y1, x2, y2) ==
    LET dx == x2 - x1
        dy == y2 - y1
    IN  ISqrt(dx * dx + dy * dy)

\* 1000 * sinf(t / 50) for t >= 0 in 0.01 s (Bhaskara's approximation on
\* each half period of 157)
SinMilli(t) ==
    LET ph == t % 314
        x  == ph % 157
        s  == (16000 * x * (157 - x)) \div (5 * 157 * 157 - 4 * x * (157 - x))
    IN  IF ph < 157 THEN s ELSE -s

\* the vector (dx, dy) scaled to length spd; (0, 0) when its length is 0
Aim(dx, dy, spd) ==
    LET len == ISqrt(dx * dx + dy * dy)
    IN  IF len > 0 THEN [x |-> TDiv(dx * spd, len), y |-> TDiv(dy * spd, len)]
        ELSE [x |-> dx * spd, y |-> dy * spd]

(***************************************************************************)
(* Init                                                                    *)
(***************************************************************************)
PLAYER_HP      == 100
PLAYER_SHIELD  == 50
PLAYER_LIVES   == 3
PLAYER_AMMO    == 10
PLAYER_BOMBS   == 3
SHOOT_COOLDOWN == 15
RAPID_COOLDOWN == 5

initPlayer ==
    [ x |-> Du(SCREEN_W) \div 2, y |-> Du(PLAY_H - 200),
      hp |-> PLAYER_HP, maxHp |-> PLAYER_HP,
      shield |-> PLAYER_SHIELD, maxShield |-> PLAYER_SHIELD,
      shieldActive |-> FALSE, shieldTimer |-> 0,
      score |-> 0, lives |-> PLAYER_LIVES, level |-> 1, kills |-> 0,
      ammo |-> PLAYER_AMMO, bombs |-> PLAYER_BOMBS,
      rapidFire |-> FALSE, rapidTimer |-> 0,
      shootCooldown |-> SHOOT_COOLDOWN, shootTimer |-> 0,
      invTimer |-> 0, dragging |-> FALSE ]

SPAWN_INTERVAL == 200

\* struct Game after its default member initialisers and initPlayer
NewGame ==
    [ state |-> STATE_MENU, player |-> initPlayer,
      bullets |-> <<>>, missiles |-> <<>>, explosions |-> <<>>,
      powerups |-> <<>>, enemies |-> <<>>,
      gameTime |-> 0,
      enemySpawnTimer |-> 0, enemySpawnInterval |-> SPAWN_INTERVAL,
      powerupSpawnTimer |-> 0, bossAlive |-> FALSE,
      combo |-> 0, comboTimer |-> 0, highScore |-> 0,
      shakeTimer |-> 0,
      touchX |-> SCREEN_W \div 2, touchY |-> PLAY_H \div 2 ]

(***************************************************************************)
(* Spawn functions                                                         *)
(***************************************************************************)
EXPLOSION_LIFE == 50
SHAKE_TIME     == 20

spawnExplosion(G, x, y, sz) ==
    [G EXCEPT !.explosions =
                  Append(@, [x |-> x, y |-> y, maxRadius |-> sz,
                             life |-> EXPLOSION_LIFE, maxLife |-> EXPLOSION_LIFE]),
              !.shakeTimer = SHAKE_TIME]

spawnBullet(G, x, y, vx, vy, isEnemy, dmg) ==
    [G EXCEPT !.bullets =
                  Append(@, [x |-> x, y |-> y, vx |-> vx, vy |-> vy,
                             active |-> TRUE, isEnemy |-> isEnemy, damage |-> dmg])]

MISSILE_SPEED == 400
MISSILE_LIFE  == 300

spawnMissile(G, x, y, tx, ty, isEnemy, dmg) ==
    LET v == Aim(tx - x, ty - y, MISSILE_SPEED)
    IN  [G EXCEPT !.missiles =
                      Append(@, [x |-> x, y |-> y, vx |-> v.x, vy |-> v.y,
                                 targetX |-> tx, targetY |-> ty,
                                 active |-> TRUE, isEnemy |-> isEnemy,
                                 damage |-> dmg, life |-> MISSILE_LIFE])]

POWERUP_VY == 80

\* type is the value of rand() % 5
spawnPowerup(G, x, y, type) ==
    [G EXCEPT !.powerups =
                  Append(@, [x |-> x, y |-> y, vy |-> POWERUP_VY,
                             active |-> TRUE, type |-> type])]

\* the per-archetype data of spawnEnemy's switch; sgn is 1 or -1 (rand() % 2)
EnemyData(type, sgn) ==
    CASE type = 0 -> [hp |-> 30,  vx |-> sgn * 60,  vy |-> 80,  shootInterval |-> 150, score |-> 100]
      [] type = 1 -> [hp |-> 20,  vx |-> sgn * 120, vy |-> 160, shootInterval |-> 100, score |-> 200]
      [] type = 2 -> [hp |-> 80,  vx |-> sgn * 40,  vy |-> 60,  shootInterval |-> 80,  score |-> 500]
      [] type = 3 -> [hp |-> 500, vx |-> 100,       vy |-> 30,  shootInterval |-> 40,  score |-> 5000]

\* rx is the value of 60 + rand() % (SCREEN_W - 120), in logical units
spawnEnemy(G, type, rx, sgn) ==
    LET d == EnemyData(type, sgn)
    IN  [G EXCEPT !.enemies =
                      Append(@, [x |-> IF type = 3 THEN Du(SCREEN_W) \div 2 ELSE Du(rx),
                                 y |-> Du(-80),
                                 vx |-> d.vx, vy |-> d.vy, active |-> TRUE,
                                 hp |-> d.hp, maxHp |-> d.hp, type |-> type,
                                 shootTimer |-> d.shootInterval,
                                 shootInterval |-> d.shootInterval,
                                 moveTimer |-> 0, score |-> d.score])]

(***************************************************************************)
(* Player actions                                                          *)
(***************************************************************************)
BULLET_SPEED  == 700
BULLET_DAMAGE == 10
GUN_SHAKE     == 3

\* playerShoot without the test of the cooldown timer
playerShootNoCooldown(G) ==
    LET p  == G.player
        cd == IF p.rapidFire THEN RAPID_COOLDOWN ELSE p.shootCooldown
        G1 == [G EXCEPT !.player.shootTimer = cd]
        G2 == spawnBullet(G1, p.x - Du(15), p.y - Du(40), 0, -BULLET_SPEED, FALSE, BULLET_DAMAGE)
        G3 == spawnBullet(G2, p.x + Du(15), p.y - Du(40), 0, -BULLET_SPEED, FALSE, BULLET_DAMAGE)
    IN  [G3 EXCEPT !.shakeTimer = GUN_SHAKE]

playerShoot(G) ==
    LET p  == G.player
        cd == IF p.rapidFire THEN RAPID_COOLDOWN ELSE p.shootCooldown
        G1 == [G EXCEPT !.player.shootTimer = cd]
        G2 == spawnBullet(G1, p.x - Du(15), p.y - Du(40), 0, -BULLET_SPEED, FALSE, BULLET_DAMAGE)
        G3 == spawnBullet(G2, p.x + Du(15), p.y - Du(40), 0, -BULLET_SPEED, FALSE, BULLET_DAMAGE)
    IN  IF p.shootTimer > 0 THEN G
        ELSE [G3 EXCEPT !.shakeTimer = GUN_SHAKE]

NEAR_INIT      == 9999
MISSILE_DAMAGE == 50

\* NearestToPlayer without the update of nearDist: every active enemy in
\* range replaces the target
RECURSIVE NearestToPlayerLast(_, _, _)
NearestToPlayerLast(G, i, acc) ==
    IF i > Len(G.enemies) THEN acc
    ELSE LET e == G.enemies[i]
             d == dist2D(G.player.x, G.player.y, e.x, e.y)
         IN  IF e.active /\ d < Du(NEAR_INIT)
             THEN NearestToPlayerLast(G, i + 1, [d |-> acc.d, tx |-> e.x, ty |-> e.y])
             ELSE NearestToPlayerLast(G, i + 1, acc)

\* the target of a new missile after the enemies 1..i have been looked at:
\* acc = [d |-> nearDist, tx |-> tx, ty |-> ty]
RECURSIVE NearestToPlayer(_, _, _)
NearestToPlayer(G, i, acc) ==
    IF i > Len(G.enemies) THEN acc
    ELSE LET e == G.enemies[i]
             d == dist2D(G.player.x, G.player.y, e.x, e.y)
         IN  IF e.active /\ d < acc.d
             THEN NearestToPlayer(G, i + 1, [d |-> d, tx |-> e.x, ty |-> e.y])
             ELSE NearestToPlayer(G, i + 1, acc)

\* playerFireMissile with the guard ammo < 0 for ammo <= 0
playerFireMissileOffByOne(G) ==
    LET p  == G.player
        G1 == [G EXCEPT !.player.ammo = @ - 1]
        t  == NearestToPlayer(G1, 1, [d |-> Du(NEAR_INIT), tx |-> p.x, ty |-> Du(-100)])
    IN  IF p.ammo < 0 THEN G
        ELSE spawnMissile(G1, p.x, p.y - Du(40), t.tx, t.ty, FALSE, MISSILE_DAMAGE)

playerFireMissile(G) ==
    LET p  == G.player
        G1 == [G EXCEPT !.player.ammo = @ - 1]
        t  == NearestToPlayer(G1, 1, [d |-> Du(NEAR_INIT), tx |-> p.x, ty |-> Du(-100)])
    IN  IF p.ammo <= 0 THEN G
        ELSE spawnMissile(G1, p.x, p.y - Du(40), t.tx, t.ty, FALSE, MISSILE_DAMAGE)

BOMB_DAMAGE == 150
COMBO_TIME  == 200

\* BombEnemy with the gun's combo multiplier applied to the score
BombEnemyCombo(G, i) ==
    LET e  == G.enemies[i]
        hp == e.hp - BOMB_DAMAGE
        G1 == spawnExplosion([G EXCEPT !.enemies[i].hp = hp], e.x, e.y, 60)
    IN  IF ~e.active THEN G
        ELSE IF hp <= 0
             THEN [G1 EXCEPT !.enemies[i].active = FALSE,
                             !.player.score = @ + e.score * (1 + G.combo \div 5),
                             !.player.kills = @ + 1,
                             !.combo = @ + 1,
                             !.comboTimer = COMBO_TIME]
             ELSE G1

\* the body of playerBomb's loop for the enemy at index i
BombEnemy(G, i) ==
    LET e  == G.enemies[i]
        hp == e.hp - BOMB_DAMAGE
        G1 == spawnExplosion([G EXCEPT !.enemies[i].hp = hp], e.x, e.y, 60)
    IN  IF ~e.active THEN G
        ELSE IF hp <= 0
             THEN [G1 EXCEPT !.enemies[i].active = FALSE,
                             !.player.score = @ + e.score,
                             !.player.kills = @ + 1,
                             !.combo = @ + 1,
                             !.comboTimer = COMBO_TIME]
             ELSE G1

RECURSIVE BombLoop(_, _)
BombLoop(G, i) ==
    IF i > Len(G.enemies) THEN G ELSE BombLoop(BombEnemy(G, i), i + 1)

playerBomb(G) ==
    LET G1 == [G EXCEPT !.player.bombs = @ - 1]
        G2 == [BombLoop(G1, 1) EXCEPT !.shakeTimer = 50]
    IN  IF G.player.bombs <= 0 THEN G
        ELSE spawnExplosion(G2, Du(SCREEN_W \div 2), Du(PLAY_H \div 2), 300)

(***************************************************************************)
(* updateGame.  rnd holds the values rand() returns during the frame:      *)
(*   etype   the archetype drawn for the cadence spawn                     *)
(*   rx, sgn the spawn column and the side drawn by spawnEnemy             *)
(*   pux, putype  column and kind of the cadence pickup                    *)
(*   drop    the enemies (by index) whose kill draws a pickup drop         *)
(*   dtype   the kind of the pickup dropped at each enemy                  *)
(*   fire    the heavy enemies whose shot also draws a missile             *)
(***************************************************************************)
\* UpdateTimers without the reset of the combo
UpdateTimersKeepCombo(G, dt) ==
    LET p  == G.player
        rt == Max(0, p.rapidTimer - dt)
    IN  [G EXCEPT !.player.shootTimer = Max(0, p.shootTimer - dt),
                  !.player.invTimer   = Max(0, p.invTimer - dt),
                  !.player.rapidTimer = rt,
                  !.player.rapidFire  = IF rt <= 0 THEN FALSE ELSE @,
                  !.shakeTimer = Max(0, @ - dt),
                  !.comboTimer = Max(0, @ - dt),
                  !.gameTime   = @ + dt]

\* the timers at the head of updateGame
UpdateTimers(G, dt) ==
    LET p  == G.player
        rt == Max(0, p.rapidTimer - dt)
        ct == Max(0, G.comboTimer - dt)
    IN  [G EXCEPT !.player.shootTimer = Max(0, p.shootTimer - dt),
                  !.player.invTimer   = Max(0, p.invTimer - dt),
                  !.player.rapidTimer = rt,
                  !.player.rapidFire  = IF rt <= 0 THEN FALSE ELSE @,
                  !.shakeTimer = Max(0, @ - dt),
                  !.comboTimer = ct,
                  !.combo      = IF ct <= 0 THEN 0 ELSE @,
                  !.gameTime   = @ + dt]

PLAYER_MIN_X == 40
PLAYER_MIN_Y == 60

\* ClampPlayer without the clamp of y
ClampPlayerXOnly(p) ==
    [p EXCEPT !.x = clamp(@, Du(PLAYER_MIN_X), Du(SCREEN_W - 40))]

ClampPlayer(p) ==
    [p EXCEPT !.x = clamp(@, Du(PLAYER_MIN_X), Du(SCREEN_W - 40)),
              !.y = clamp(@, Du(PLAYER_MIN_Y), Du(PLAY_H - 80))]

\* p.x += dx * dt * 8.0f with dt in seconds
FollowTouch(G, dt) ==
    LET p  == G.player
        dx == Du(G.touchX) - p.x
        dy == Du(G.touchY) - p.y
    IN  IF p.dragging
        THEN [p EXCEPT !.x = @ + TDiv(dx * dt * 8, 100),
                       !.y = @ + TDiv(dy * dt * 8, 100)]
        ELSE p

MovePlayer(G, dt) ==
    LET G1 == [G EXCEPT !.player = ClampPlayer(FollowTouch(G, dt))]
    IN  IF G1.player.dragging THEN playerShoot(G1) ELSE G1

SPAWN_FLOOR    == 50
TIME_FAST      == 3000
TIME_HEAVY     == 6000
TIME_BOSS      == 9000
POWERUP_PERIOD == 1200

spawnInt(G) == Max(SPAWN_FLOOR, G.enemySpawnInterval - G.gameTime \div 50)

\* TypeChoices with the draw over three archetypes from 30 s on
TypeChoicesEarlyHeavy(gameTime) ==
    IF gameTime > TIME_FAST THEN 0..2 ELSE {0}

\* the values rand() % 3, rand() % 2 or no draw can give for the archetype
TypeChoices(gameTime) ==
    IF gameTime > TIME_HEAVY THEN 0..2
    ELSE IF gameTime > TIME_FAST THEN 0..1 ELSE {0}

\* SpawnEnemies without the test of the boss-alive latch
SpawnEnemiesDespiteBoss(G, dt, rnd) ==
    LET G1 == [G EXCEPT !.enemySpawnTimer = @ + dt]
        G2 == [G1 EXCEPT !.enemySpawnTimer = 0]
    IN  IF G1.enemySpawnTimer >= spawnInt(G1)
        THEN spawnEnemy(G2, rnd.etype, rnd.rx, rnd.sgn)
        ELSE G1

\* SpawnEnemies without the restart of the accumulator
SpawnEnemiesNoRestart(G, dt, rnd) ==
    LET G1 == [G EXCEPT !.enemySpawnTimer = @ + dt]
    IN  IF G1.enemySpawnTimer >= spawnInt(G1)
        THEN IF ~G1.bossAlive THEN spawnEnemy(G1, rnd.etype, rnd.rx, rnd.sgn)
             ELSE G1
        ELSE G1

SpawnEnemies(G, dt, rnd) ==
    LET G1 == [G EXCEPT !.enemySpawnTimer = @ + dt]
        G2 == [G1 EXCEPT !.enemySpawnTimer = 0]
    IN  IF G1.enemySpawnTimer >= spawnInt(G1)
        THEN IF ~G2.bossAlive THEN spawnEnemy(G2, rnd.etype, rnd.rx, rnd.sgn)
             ELSE G2
        ELSE G1

\* SpawnBoss without the test of the latch
SpawnBossDespiteLatch(G, rnd) ==
    IF G.gameTime > TIME_BOSS
    THEN spawnEnemy([G EXCEPT !.bossAlive = TRUE], 3, rnd.rx, rnd.sgn)
    ELSE G

\* the boss trigger
SpawnBoss(G, rnd) ==
    IF G.gameTime > TIME_BOSS /\ ~G.bossAlive
    THEN spawnEnemy([G EXCEPT !.bossAlive = TRUE], 3, rnd.rx, rnd.sgn)
    ELSE G

SpawnPowerups(G, dt, rnd) ==
    LET G1 == [G EXCEPT !.powerupSpawnTimer = @ + dt]
    IN  IF G1.powerupSpawnTimer > POWERUP_PERIOD
        THEN spawnPowerup([G1 EXCEPT !.powerupSpawnTimer = 0],
                          Du(rnd.pux), Du(-50), rnd.putype)
        ELSE G1

\* updateGame up to the bullet loop
PreCombat(G, dt, rnd) ==
    SpawnPowerups(SpawnBoss(SpawnEnemies(MovePlayer(UpdateTimers(G, dt), dt), dt, rnd), rnd), dt, rnd)

(***************************************************************************)
(* updateGame: the bullet loop                                             *)
(***************************************************************************)
BULLET_MARGIN == 20
INV_HIT       == 50
INV_MISSILE   == 100
INV_RESPAWN   == 300
PLAYER_HIT_R  == 30

\* BulletOut with the test of the upper edge alone
BulletOutAbove(b) == b.y < Du(-BULLET_MARGIN)

\* the test of a bullet against the area and its margin
BulletOut(b) ==
    \/ b.y < Du(-BULLET_MARGIN) \/ b.y > Du(PLAY_H + BULLET_MARGIN)
    \/ b.x < Du(-BULLET_MARGIN) \/ b.x > Du(SCREEN_W + BULLET_MARGIN)

\* GunKillScore without the combo multiplier
GunKillScoreFlat(G, e) == e.score

\* the score a gun kill of enemy e awards
GunKillScore(G, e) == e.score * (1 + G.combo \div 5)

\* the kill branch of the bullet loop for the enemy at index j
GunKill(G, j, rnd) ==
    LET e  == G.enemies[j]
        G1 == [G EXCEPT !.enemies[j].active = FALSE,
                        !.player.score = @ + GunKillScore(G, e),
                        !.player.kills = @ + 1,
                        !.combo = @ + 1,
                        !.comboTimer = COMBO_TIME,
                        !.bossAlive = IF e.type = 3 THEN FALSE ELSE @,
                        !.player.level = IF e.type = 3 THEN @ + 1 ELSE @]
        G2 == spawnExplosion(G1, e.x, e.y, IF e.type = 3 THEN 120 ELSE 50)
    IN  IF j \in rnd.drop THEN spawnPowerup(G2, e.x, e.y, rnd.dtype[j]) ELSE G2

\* BulletVsEnemy with the kill at hp < 0
BulletVsEnemyLateKill(G, i, j, rnd) ==
    LET b    == G.bullets[i]
        e    == G.enemies[j]
        hitR == IF e.type = 3 THEN 50 ELSE 30
        hp   == e.hp - b.damage
        G1   == spawnExplosion([G EXCEPT !.bullets[i].active = FALSE,
                                         !.enemies[j].hp = hp], b.x, b.y, 20)
    IN  IF e.active /\ dist2D(b.x, b.y, e.x, e.y) < Du(hitR)
        THEN IF hp < 0 THEN GunKill(G1, j, rnd) ELSE G1
        ELSE G

\* the player bullet at index i against the enemy at index j
BulletVsEnemy(G, i, j, rnd) ==
    LET b    == G.bullets[i]
        e    == G.enemies[j]
        hitR == IF e.type = 3 THEN 50 ELSE 30
        hp   == e.hp - b.damage
        G1   == spawnExplosion([G EXCEPT !.bullets[i].active = FALSE,
                                         !.enemies[j].hp = hp], b.x, b.y, 20)
    IN  IF e.active /\ dist2D(b.x, b.y, e.x, e.y) < Du(hitR)
        THEN IF hp <= 0 THEN GunKill(G1, j, rnd) ELSE G1
        ELSE G

RECURSIVE BulletVsEnemies(_, _, _, _)
BulletVsEnemies(G, i, j, rnd) ==
    IF j > Len(G.enemies) THEN G
    ELSE BulletVsEnemies(BulletVsEnemy(G, i, j, rnd), i, j + 1, rnd)

\* EndSessionByBullet entering the neighbouring enumerator STATE_WIN
EndSessionWin(G) ==
    [G EXCEPT !.highScore = IF G.player.score > @ THEN G.player.score ELSE @,
              !.state = STATE_WIN]

\* the session ends: the branch of the bullet loop taken when lives reach 0
EndSessionByBullet(G) ==
    [G EXCEPT !.highScore = IF G.player.score > @ THEN G.player.score ELSE @,
              !.state = STATE_GAMEOVER]

\* the branch of the missile loop taken when lives reach 0
EndSessionByMissile(G) == [G EXCEPT !.state = STATE_GAMEOVER]

\* Respawn without the restoring of the health
RespawnNoHeal(G) ==
    [G EXCEPT !.player.invTimer = INV_RESPAWN]

\* the else branch of lives <= 0: the player respawns
Respawn(G) ==
    [G EXCEPT !.player.hp = G.player.maxHp, !.player.invTimer = INV_RESPAWN]

\* if (p.hp <= 0) { p.lives--; ... } of the bullet loop
LoseLifeToBullet(G) ==
    LET G1 == [G EXCEPT !.player.lives = @ - 1]
    IN  IF G.player.hp > 0 THEN G
        ELSE IF G1.player.lives <= 0 THEN EndSessionByBullet(G1) ELSE Respawn(G1)

\* LoseLifeToMissile ending the session one life late, at lives < 0
LoseLifeToMissileLate(G) ==
    LET G1 == [G EXCEPT !.player.lives = @ - 1]
    IN  IF G.player.hp > 0 THEN G
        ELSE IF G1.player.lives < 0 THEN EndSessionByMissile(G1) ELSE Respawn(G1)

\* if (p.hp <= 0) { p.lives--; ... } of the missile loop
LoseLifeToMissile(G) ==
    LET G1 == [G EXCEPT !.player.lives = @ - 1]
    IN  IF G.player.hp > 0 THEN G
        ELSE IF G1.player.lives <= 0 THEN EndSessionByMissile(G1) ELSE Respawn(G1)

\* BulletDamage without the floor of the shield at 0
BulletDamageNoFloor(p, dmg) ==
    IF p.shieldActive /\ p.shield > 0
    THEN [p EXCEPT !.shield = @ - dmg]
    ELSE [p EXCEPT !.hp = @ - dmg]

\* the damage of an enemy bullet lands on the shield or on the health
BulletDamage(p, dmg) ==
    IF p.shieldActive /\ p.shield > 0
    THEN [p EXCEPT !.shield = IF @ - dmg < 0 THEN 0 ELSE @ - dmg]
    ELSE [p EXCEPT !.hp = @ - dmg]

\* BulletVsPlayer without the test of the invincibility timer
BulletVsPlayerAlways(G, i) ==
    LET b  == G.bullets[i]
        p  == G.player
        G1 == [G EXCEPT !.bullets[i].active = FALSE,
                        !.player = [BulletDamage(p, b.damage) EXCEPT !.invTimer = INV_HIT]]
        G2 == spawnExplosion(G1, p.x, p.y, 25)
    IN  IF dist2D(b.x, b.y, p.x, p.y) < Du(PLAYER_HIT_R)
        THEN LoseLifeToBullet(G2)
        ELSE G

\* the enemy bullet at index i against the player
BulletVsPlayer(G, i) ==
    LET b  == G.bullets[i]
        p  == G.player
        G1 == [G EXCEPT !.bullets[i].active = FALSE,
                        !.player = [BulletDamage(p, b.damage) EXCEPT !.invTimer = INV_HIT]]
        G2 == spawnExplosion(G1, p.x, p.y, 25)
    IN  IF p.invTimer <= 0 /\ dist2D(b.x, b.y, p.x, p.y) < Du(PLAYER_HIT_R)
        THEN LoseLifeToBullet(G2)
        ELSE G

\* one iteration of the bullet loop
UpdateBullet(G, i, dt, rnd) ==
    LET b  == G.bullets[i]
        b1 == [b EXCEPT !.x = @ + TDiv(b.vx * dt, 10), !.y = @ + TDiv(b.vy * dt, 10)]
        b2 == IF BulletOut(b1) THEN [b1 EXCEPT !.active = FALSE] ELSE b1
        G1 == [G EXCEPT !.bullets[i] = b2]
    IN  IF ~b.active THEN G
        ELSE IF ~b.isEnemy THEN BulletVsEnemies(G1, i, 1, rnd)
             ELSE BulletVsPlayer(G1, i)

RECURSIVE UpdateBullets(_, _, _, _)
UpdateBullets(G, i, dt, rnd) ==
    IF i > Len(G.bullets) THEN G
    ELSE UpdateBullets(UpdateBullet(G, i, dt, rnd), i + 1, dt, rnd)

(***************************************************************************)
(* updateGame: the missile loop                                            *)
(***************************************************************************)
MISSILE_MARGIN == 50
HOMING_SPEED   == 500
MISSILE_HIT_R  == 35

\* the homing target after the enemies 1..j have been looked at:
\* acc = [d |-> nearD, k |-> index of the target, 0 for nullptr]
RECURSIVE NearestToMissile(_, _, _, _)
NearestToMissile(G, m, j, acc) ==
    IF j > Len(G.enemies) THEN acc
    ELSE LET e == G.enemies[j]
             d == dist2D(m.x, m.y, e.x, e.y)
         IN  IF e.active /\ d < acc.d
             THEN NearestToMissile(G, m, j + 1, [d |-> d, k |-> j])
             ELSE NearestToMissile(G, m, j + 1, acc)

\* the homing step of missile m
Steer(G, m, dt) ==
    LET t == NearestToMissile(G, m, 1, [d |-> Du(NEAR_INIT), k |-> 0])
        e == G.enemies[t.k]
        v == Aim(e.x - m.x, e.y - m.y, HOMING_SPEED)
    IN  IF ~m.isEnemy /\ G.enemies # <<>> /\ t.k # 0
        THEN [m EXCEPT !.vx = lerp(m.vx, v.x, dt * 3),
                       !.vy = lerp(m.vy, v.y, dt * 3)]
        ELSE m

\* MissileKill with the score of a gun kill
MissileKillAsGun(G, j, rnd) ==
    LET e  == G.enemies[j]
        G1 == [G EXCEPT !.enemies[j].active = FALSE,
                        !.player.score = @ + GunKillScore(G, e),
                        !.player.kills = @ + 1,
                        !.bossAlive = IF e.type = 3 THEN FALSE ELSE @]
    IN  IF j \in rnd.drop THEN spawnPowerup(G1, e.x, e.y, rnd.dtype[j]) ELSE G1

\* the kill branch of the missile loop for the enemy at index j
MissileKill(G, j, rnd) ==
    LET e  == G.enemies[j]
        G1 == [G EXCEPT !.enemies[j].active = FALSE,
                        !.player.score = @ + e.score * 2,
                        !.player.kills = @ + 1,
                        !.bossAlive = IF e.type = 3 THEN FALSE ELSE @]
    IN  IF j \in rnd.drop THEN spawnPowerup(G1, e.x, e.y, rnd.dtype[j]) ELSE G1

\* the player missile at index i against the enemy at index j
MissileVsEnemy(G, i, j, rnd) ==
    LET m    == G.missiles[i]
        e    == G.enemies[j]
        hitR == IF e.type = 3 THEN 60 ELSE 35
        hp   == e.hp - m.damage
        G1   == spawnExplosion([G EXCEPT !.missiles[i].active = FALSE,
                                         !.enemies[j].hp = hp], m.x, m.y, 60)
    IN  IF e.active /\ dist2D(m.x, m.y, e.x, e.y) < Du(hitR)
        THEN IF hp <= 0 THEN MissileKill(G1, j, rnd) ELSE G1
        ELSE G

RECURSIVE MissileVsEnemies(_, _, _, _)
MissileVsEnemies(G, i, j, rnd) ==
    IF j > Len(G.enemies) THEN G
    ELSE MissileVsEnemies(MissileVsEnemy(G, i, j, rnd), i, j + 1, rnd)

\* MissileVsPlayer without the test of the invincibility timer
MissileVsPlayerAlways(G, i) ==
    LET m  == G.missiles[i]
        p  == G.player
        G1 == [G EXCEPT !.missiles[i].active = FALSE,
                        !.player.hp = @ - m.damage,
                        !.player.invTimer = INV_MISSILE]
        G2 == spawnExplosion(G1, p.x, p.y, 60)
    IN  IF dist2D(m.x, m.y, p.x, p.y) < Du(MISSILE_HIT_R)
        THEN LoseLifeToMissile(G2)
        ELSE G

\* the enemy missile at index i against the player
MissileVsPlayer(G, i) ==
    LET m  == G.missiles[i]
        p  == G.player
        G1 == [G EXCEPT !.missiles[i].active = FALSE,
                        !.player.hp = @ - m.damage,
                        !.player.invTimer = INV_MISSILE]
        G2 == spawnExplosion(G1, p.x, p.y, 60)
    IN  IF p.invTimer <= 0 /\ dist2D(m.x, m.y, p.x, p.y) < Du(MISSILE_HIT_R)
        THEN LoseLifeToMissile(G2)
        ELSE G

MissileOut(m) ==
    \/ m.y < Du(-MISSILE_MARGIN) \/ m.y > Du(PLAY_H + MISSILE_MARGIN)
    \/ m.x < Du(-MISSILE_MARGIN) \/ m.x > Du(SCREEN_W + MISSILE_MARGIN)

\* UpdateMissile with the test of the life after the move and the hit
UpdateMissileLateExpiry(G, i, dt, rnd) ==
    LET m  == G.missiles[i]
        m1 == [m EXCEPT !.life = @ - dt]
        m2 == Steer(G, m1, dt)
        m3 == [m2 EXCEPT !.x = @ + TDiv(m2.vx * dt, 10), !.y = @ + TDiv(m2.vy * dt, 10)]
        G1 == [G EXCEPT !.missiles[i] = m3]
        G2 == IF ~m.isEnemy THEN MissileVsEnemies(G1, i, 1, rnd)
              ELSE MissileVsPlayer(G1, i)
    IN  IF ~m.active THEN G
        ELSE IF m1.life <= 0 \/ MissileOut(m3) THEN [G2 EXCEPT !.missiles[i].active = FALSE]
        ELSE G2

\* one iteration of the missile loop
UpdateMissile(G, i, dt, rnd) ==
    LET m  == G.missiles[i]
        m1 == [m EXCEPT !.life = @ - dt]
        m2 == Steer(G, m1, dt)
        m3 == [m2 EXCEPT !.x = @ + TDiv(m2.vx * dt, 10), !.y = @ + TDiv(m2.vy * dt, 10)]
        G1 == [G EXCEPT !.missiles[i] = m3]
        G2 == IF ~m.isEnemy THEN MissileVsEnemies(G1, i, 1, rnd)
              ELSE MissileVsPlayer(G1, i)
    IN  IF ~m.active THEN G
        ELSE IF m1.life <= 0 THEN [G EXCEPT !.missiles[i] = [m1 EXCEPT !.active = FALSE]]
        ELSE IF MissileOut(m3) THEN [G2 EXCEPT !.missiles[i].active = FALSE]
        ELSE G2

RECURSIVE UpdateMissiles(_, _, _, _)
UpdateMissiles(G, i, dt, rnd) ==
    IF i > Len(G.missiles) THEN G
    ELSE UpdateMissiles(UpdateMissile(G, i, dt, rnd), i + 1, dt, rnd)

\* the bullet loop and the missile loop
Combat(G, dt, rnd) == UpdateMissiles(UpdateBullets(G, 1, dt, rnd), 1, dt, rnd)

(***************************************************************************)
(* updateGame: the enemy loop                                              *)
(***************************************************************************)
ENEMY_BULLET_SPEED == 250
BOSS_BULLET_SPEED  == 350
SPREAD_SPEED       == 300

MoveBoss(e, dt) ==
    LET x  == e.x + TDiv(e.vx * dt, 10)
        y  == e.y + TDiv(e.vy * dt * 2, 100)
        vx == IF x < Du(80) \/ x > Du(SCREEN_W - 80) THEN -e.vx ELSE e.vx
        v1 == IF y > Du(200) THEN -Abs(e.vy) ELSE e.vy
        vy == IF y < Du(50) THEN Abs(v1) ELSE v1
    IN  [e EXCEPT !.x = x, !.y = y, !.vx = vx, !.vy = vy]

MoveJet(e, dt) ==
    LET x  == e.x + TDiv(e.vx * dt, 10)
        y  == e.y + TDiv(e.vy * dt, 10)
        vx == IF x < Du(30) \/ x > Du(SCREEN_W - 30) THEN -e.vx ELSE e.vx
    IN  [e EXCEPT !.x = x + TDiv(SinMilli(e.moveTimer) * 3 * dt, 1000),
                  !.y = y, !.vx = vx]

\* 1000 * (cosf, sinf) of i * 0.3 rad, i in -2..2
SpreadRot(i) ==
    CASE i = -2 -> [c |-> 825,  s |-> -565]
      [] i = -1 -> [c |-> 955,  s |-> -296]
      [] i = 0  -> [c |-> 1000, s |-> 0]
      [] i = 1  -> [c |-> 955,  s |-> 296]
      [] i = 2  -> [c |-> 825,  s |-> 565]

\* the boss's spread: five bullets around the direction (dx, dy)
RECURSIVE BossSpread(_, _, _, _, _)
BossSpread(G, e, dx, dy, i) ==
    IF i > 2 THEN G
    ELSE LET u == IF dx = 0 /\ dy = 0 THEN [x |-> 1000, y |-> 0] ELSE Aim(dx, dy, 1000)
             r == SpreadRot(i)
             vx == TDiv(TDiv(u.x * r.c - u.y * r.s, 1000) * SPREAD_SPEED, 1000)
             vy == TDiv(TDiv(u.x * r.s + u.y * r.c, 1000) * SPREAD_SPEED, 1000)
         IN  BossSpread(spawnBullet(G, e.x, e.y, vx, vy, TRUE, 15), e, dx, dy, i + 1)

\* the enemy at index j shoots
EnemyShoot(G, j, rnd) ==
    LET e   == G.enemies[j]
        p   == G.player
        dx  == p.x - e.x
        dy  == p.y - e.y
        spd == IF e.type = 3 THEN BOSS_BULLET_SPEED ELSE ENEMY_BULLET_SPEED
        v   == Aim(dx, dy, spd)
        G1  == [G EXCEPT !.enemies[j].shootTimer = e.shootInterval]
        G2  == spawnBullet(G1, e.x, e.y, v.x, v.y, TRUE, IF e.type = 3 THEN 20 ELSE 10)
        G3  == IF e.type = 3 /\ G.gameTime > TIME_HEAVY
               THEN BossSpread(G2, e, dx, dy, -2) ELSE G2
    IN  IF e.type = 2 /\ j \in rnd.fire
        THEN spawnMissile(G3, e.x, e.y, p.x, p.y, TRUE, 25)
        ELSE G3

\* one iteration of the enemy loop
UpdateEnemy(G, j, dt, rnd) ==
    LET e  == G.enemies[j]
        e1 == [e EXCEPT !.moveTimer = @ + dt]
        e2 == IF e.type = 3 THEN MoveBoss(e1, dt) ELSE MoveJet(e1, dt)
        e3 == [e2 EXCEPT !.shootTimer = @ - dt]
        G1 == [G EXCEPT !.enemies[j] = e3]
    IN  IF ~e.active THEN G
        ELSE IF e2.y > Du(PLAY_H + 100)
             THEN [G EXCEPT !.enemies[j] = [e2 EXCEPT !.active = FALSE]]
        ELSE IF e3.shootTimer <= 0 THEN EnemyShoot(G1, j, rnd)
        ELSE G1

RECURSIVE UpdateEnemies(_, _, _, _)
UpdateEnemies(G, j, dt, rnd) ==
    IF j > Len(G.enemies) THEN G
    ELSE UpdateEnemies(UpdateEnemy(G, j, dt, rnd), j + 1, dt, rnd)

(***************************************************************************)
(* updateGame: explosions, cleanup, powerups, shield timer, level          *)
(***************************************************************************)
ExplosionAlive(ex) == ex.life > 0
IsActive(r) == r.active

UpdateExplosions(G, dt) ==
    LET aged == [k \in 1..Len(G.explosions) |->
                    [G.explosions[k] EXCEPT !.life = @ - dt]]
    IN  [G EXCEPT !.explosions = SelectSeq(aged, ExplosionAlive)]

\* Cleanup without the compaction of the bullets
CleanupSparesBullets(G) ==
    [G EXCEPT !.missiles = SelectSeq(@, IsActive),
              !.enemies  = SelectSeq(@, IsActive)]

Cleanup(G) ==
    [G EXCEPT !.bullets  = SelectSeq(@, IsActive),
              !.missiles = SelectSeq(@, IsActive),
              !.enemies  = SelectSeq(@, IsActive)]

PICKUP_R     == 40
PICKUP_SCORE == 50

\* the switch of the powerup loop
Collect(p, type) ==
    CASE type = 0 -> [p EXCEPT !.hp = Min(p.maxHp, @ + 30)]
      [] type = 1 -> [p EXCEPT !.shield = Min(p.maxShield, @ + 30),
                               !.shieldActive = TRUE, !.shieldTimer = 500]
      [] type = 2 -> [p EXCEPT !.rapidFire = TRUE, !.rapidTimer = 800]
      [] type = 3 -> [p EXCEPT !.ammo = @ + 5]
      [] type = 4 -> [p EXCEPT !.bombs = @ + 1]

\* one iteration of the powerup loop
UpdatePowerup(G, k, dt) ==
    LET pu  == G.powerups[k]
        pu1 == [pu EXCEPT !.y = @ + TDiv(pu.vy * dt, 10)]
        p   == G.player
        G1  == [G EXCEPT !.powerups[k] = pu1]
        G2  == [G1 EXCEPT !.powerups[k].active = FALSE,
                          !.player = Collect(p, pu.type)]
        G3  == spawnExplosion(G2, pu1.x, pu1.y, 30)
    IN  IF ~pu.active THEN G
        ELSE IF pu1.y > Du(PLAY_H + 50)
             THEN [G EXCEPT !.powerups[k] = [pu1 EXCEPT !.active = FALSE]]
        ELSE IF dist2D(pu1.x, pu1.y, p.x, p.y) < Du(PICKUP_R)
             THEN [G3 EXCEPT !.player.score = @ + PICKUP_SCORE]
        ELSE G1

RECURSIVE UpdatePowerups(_, _, _)
UpdatePowerups(G, k, dt) ==
    IF k > Len(G.powerups) THEN [G EXCEPT !.powerups = SelectSeq(@, IsActive)]
    ELSE UpdatePowerups(UpdatePowerup(G, k, dt), k + 1, dt)

ShieldTimer(G, dt) ==
    LET t == G.player.shieldTimer - dt
    IN  [G EXCEPT !.player.shieldTimer = t,
                  !.player.shieldActive = IF t <= 0 THEN FALSE ELSE @]

LevelOf(gameTime) == 1 + gameTime \div 3000

Level(G) == [G EXCEPT !.player.level = LevelOf(G.gameTime)]

\* updateGame after the missile loop
PostCombat(G, dt, rnd) ==
    Level(ShieldTimer(UpdatePowerups(Cleanup(UpdateExplosions(
        UpdateEnemies(G, 1, dt, rnd), dt)), 1, dt), dt))

updateGame(G, dt, rnd) == PostCombat(Combat(PreCombat(G, dt, rnd), dt, rnd), dt, rnd)

(***************************************************************************)
(* Input handlers                                                          *)
(***************************************************************************)
btnFire    == [x |-> SCREEN_W - 130,      y |-> PLAY_H + 80, w |-> 100, h |-> 60]
btnMissile == [x |-> SCREEN_W - 260,      y |-> PLAY_H + 90, w |-> 80,  h |-> 50]
btnBomb    == [x |-> 20,                  y |-> PLAY_H + 90, w |-> 80,  h |-> 50]
btnPause   == [x |-> SCREEN_W \div 2 - 30, y |-> PLAY_H + 88, w |-> 60,  h |-> 40]

pointInRect(x, y, rect) ==
    x >= rect.x /\ x <= rect.x + rect.w /\ y >= rect.y /\ y <= rect.y + rect.h

\* Restart without the clearing of the explosions
RestartKeepsExplosions(G) ==
    [G EXCEPT !.enemies = <<>>, !.bullets = <<>>, !.missiles = <<>>,
              !.powerups = <<>>,
              !.gameTime = 0, !.bossAlive = FALSE,
              !.player = initPlayer,
              !.state = STATE_PLAYING]

\* Restart with the high score reset with the rest of the session
RestartClearsHighScore(G) ==
    [G EXCEPT !.enemies = <<>>, !.bullets = <<>>, !.missiles = <<>>,
              !.explosions = <<>>, !.powerups = <<>>,
              !.gameTime = 0, !.bossAlive = FALSE,
              !.player = initPlayer,
              !.highScore = 0,
              !.state = STATE_PLAYING]

\* the restart branch of handleTouch
Restart(G) ==
    [G EXCEPT !.enemies = <<>>, !.bullets = <<>>, !.missiles = <<>>,
              !.explosions = <<>>, !.powerups = <<>>,
              !.gameTime = 0, !.bossAlive = FALSE,
              !.player = initPlayer,
              !.state = STATE_PLAYING]

\* the last branch of handleTouch: a touch in the play area starts a drag
StartDrag(G, tx, ty) ==
    IF ty < PLAY_H
    THEN [G EXCEPT !.touchX = tx, !.touchY = ty, !.player.dragging = TRUE]
    ELSE G

handleTouch(G, tx, ty) ==
    IF G.state = STATE_MENU THEN [G EXCEPT !.state = STATE_PLAYING]
    ELSE IF G.state = STATE_GAMEOVER THEN Restart(G)
    ELSE IF G.state = STATE_PAUSED THEN [G EXCEPT !.state = STATE_PLAYING]
    ELSE IF G.state # STATE_PLAYING THEN G
    ELSE IF pointInRect(tx, ty, btnFire) THEN playerShoot(G)
    ELSE IF pointInRect(tx, ty, btnMissile) THEN playerFireMissile(G)
    ELSE IF pointInRect(tx, ty, btnBomb) THEN playerBomb(G)
    ELSE IF pointInRect(tx, ty, btnPause) THEN [G EXCEPT !.state = STATE_PAUSED]
    ELSE StartDrag(G, tx, ty)

handleTouchUp(G) == [G EXCEPT !.player.dragging = FALSE]

\* TogglePause without the test for STATE_PAUSED
TogglePauseAnyState(G) ==
    IF G.state = STATE_PLAYING THEN [G EXCEPT !.state = STATE_PAUSED]
    ELSE [G EXCEPT !.state = STATE_PLAYING]

\* case SDL_KEYDOWN of main, for the keys SPACE, m, b and p
TogglePause(G) ==
    IF G.state = STATE_PLAYING THEN [G EXCEPT !.state = STATE_PAUSED]
    ELSE IF G.state = STATE_PAUSED THEN [G EXCEPT !.state = STATE_PLAYING]
    ELSE G

handleKey(G, k) ==
    CASE k = "SPACE" -> IF G.state = STATE_PLAYING THEN playerShoot(G) ELSE G
      [] k = "m"     -> IF G.state = STATE_PLAYING THEN playerFireMissile(G) ELSE G
      [] k = "b"     -> IF G.state = STATE_PLAYING THEN playerBomb(G) ELSE G
      [] k = "p"     -> TogglePause(G)

\* UpdateSwitch with the update also run in STATE_PAUSED
UpdateSwitchPaused(G, dt, rnd) ==
    IF G.state \in {STATE_PLAYING, STATE_PAUSED} THEN updateGame(G, dt, rnd) ELSE G

\* the update switch of main's loop
UpdateSwitch(G, dt, rnd) ==
    IF G.state = STATE_PLAYING THEN updateGame(G, dt, rnd) ELSE G

(***************************************************************************)
(* The inputs the model draws                                              *)
(***************************************************************************)
Keys == {"SPACE", "m", "b", "p"}

\* touch points: the four buttons, a HUD point off every button, and two
\* corners of the play area
TouchPoints ==
    { <<640, 1390>>, <<500, 1395>>, <<60, 1395>>, <<360, 1388>>,
      <<200, 1300>>, <<0, 0>>, <<719, 1279>> }

DtSet == {0, DtMid, DT_CAP}

SpawnXs      == {60, 360, 659}
Sides        == {1, -1}
PowerupTypes == 0..4

NoDraw == [etype |-> 0, rx |-> 60, sgn |-> 1, pux |-> 60, putype |-> 0,
           drop |-> {}, dtype |-> <<>>, fire |-> {}]

\* the cadence spawn of this frame calls spawnEnemy
EnemyDue(G, dt) ==
    LET G1 == UpdateTimers(G, dt)
    IN  G1.enemySpawnTimer + dt >= spawnInt(G1) /\ ~G1.bossAlive

PowerupDue(G, dt) == G.powerupSpawnTimer + dt > POWERUP_PERIOD

\* the draws of the spawn code of a frame
SpawnDraws(G, dt) ==
    LET ed == EnemyDue(G, dt)
        pd == PowerupDue(G, dt)
    IN  { [NoDraw EXCEPT !.etype = et, !.rx = rx, !.sgn = sg, !.pux = px, !.putype = pt] :
            et \in (IF ed THEN TypeChoices(G.gameTime + dt) ELSE {0}),
            rx \in (IF ed THEN SpawnXs ELSE {60}),
            sg \in (IF ed THEN Sides ELSE {1}),
            px \in (IF pd THEN SpawnXs ELSE {60}),
            pt \in (IF pd THEN PowerupTypes ELSE {0}) }

\* the enemies the bullet and missile loops of this frame kill
Killed(G, dt, rnd) ==
    LET A == PreCombat(G, dt, rnd)
        B == Combat(A, dt, rnd)
    IN  { j \in 1..Len(A.enemies) : A.enemies[j].active /\ ~B.enemies[j].active }

\* the heavy enemies that may shoot in this frame
HeavyShooters(G, dt, rnd) ==
    LET A == PreCombat(G, dt, rnd)
    IN  { j \in 1..Len(A.enemies) :
            A.enemies[j].type = 2 /\ A.enemies[j].shootTimer - dt <= 0 }

\* every combination of values rand() can return during the frame
Draws(G, dt) ==
    UNION { UNION { { [r EXCEPT !.drop = drop, !.dtype = dtype, !.fire = fire] :
                        dtype \in [drop -> PowerupTypes],
                        fire \in SUBSET HeavyShooters(G, dt, r) } :
                    drop \in SUBSET Killed(G, dt, r) } :
            r \in SpawnDraws(G, dt) }

(***************************************************************************)
(* The state machine: main's loop                                          *)
(***************************************************************************)
NoEvent == [ev |-> "none", key |-> "", x |-> 0, y |-> 0, dt |-> 0]

\* the Game object inside updateGame: after the spawn code (line 1108),
\* after the bullet loop (line 1164) and after the missile loop (line 1227)
Inside(G, dt, rnd) ==
    LET A == PreCombat(G, dt, rnd)
        B == UpdateBullets(A, 1, dt, rnd)
    IN  [spawned |-> A, shot |-> B, fought |-> UpdateMissiles(B, 1, dt, rnd)]

\* a step that does not run updateGame
Still(G) == [spawned |-> G, shot |-> G, fought |-> G]

\* the state after construction: main before its loop
Constructed ==
    /\ g = NewGame
    /\ pre = g
    /\ stage = Still(g)
    /\ last = NoEvent
    /\ polled = 0
    /\ frames = 0

(***************************************************************************)
(* States in mid-session.  A session takes thousands of frames to reach    *)
(* its later phases, so the specifications also start from states of a     *)
(* running session: the player at the spawn point, the pools holding only  *)
(* enemies and pickups that the spawn code creates (positions on their     *)
(* paths, moveTimer the time that path takes, timers within their          *)
(* intervals), level = LevelOf(gameTime), and shieldTimer = -gameTime as   *)
(* the shield timer has run down since the start.  Bullets, missiles and   *)
(* explosions are left to the frames that follow.                          *)
(***************************************************************************)
\* an enemy of the given archetype at (x, y) in logical units
Enemy(type, sgn, x, y, hp, shootTimer) ==
    LET d == EnemyData(type, sgn)
    IN  [x |-> Du(x), y |-> Du(y), vx |-> d.vx, vy |-> d.vy, active |-> TRUE,
         hp |-> hp, maxHp |-> d.hp, type |-> type,
         shootTimer |-> shootTimer, shootInterval |-> d.shootInterval,
         moveTimer |-> ((y + 80) * 100) \div d.vy, score |-> d.score]

\* a pickup at (x, y) in logical units
Pickup(type, x, y) ==
    [x |-> Du(x), y |-> Du(y), vy |-> POWERUP_VY, active |-> TRUE, type |-> type]

\* a running first session at time gt with the given score
Session(gt, score, kills) ==
    [NewGame EXCEPT !.state = STATE_PLAYING,
                    !.gameTime = gt,
                    !.powerupSpawnTimer = gt % POWERUP_PERIOD,
                    !.player.level = LevelOf(gt),
                    !.player.shieldTimer = -gt,
                    !.player.score = score,
                    !.player.kills = kills]

StartIn(S) ==
    /\ g \in S
    /\ pre = g
    /\ stage = Still(g)
    /\ last = NoEvent
    /\ polled = 0
    /\ frames = 0

\* Sessions about to cost a life: an enemy next to the player whose shot is
\* due.  A basic enemy 20 units above fires a bullet (damage 10); a heavy
\* enemy 50 units above fires a bullet and, on its draw, a missile (damage
\* 25) that arrives first.  One state has a pickup within reach and one an
\* active shield.
LifeStates ==
    LET basic == Enemy(0, 1, 360, 1060, 30, 5)
        heavy == Enemy(2, 1, 360, 1030, 80, 5)
    IN  { [Session(2500, 1500, 12) EXCEPT !.player.lives = lv, !.player.hp = 10,
                                          !.enemies = <<basic>>] : lv \in {1, 2} }
        \cup
        { [Session(6500, 4200, 30) EXCEPT !.player.lives = lv, !.player.hp = 20,
                                          !.enemies = <<heavy>>] : lv \in {1, 2} }
        \cup
        { [Session(2500, 1500, 12) EXCEPT !.player.lives = 1, !.player.hp = 10,
                                          !.enemies = <<basic>>,
                                          !.powerups = <<Pickup(3, 360, 1030)>>],
          [Session(2500, 1500, 12) EXCEPT !.player.lives = 1, !.player.hp = 10,
                                          !.player.shield = 5,
                                          !.player.shieldActive = TRUE,
                                          !.player.shieldTimer = 100,
                                          !.enemies = <<basic>>] }

\* Sessions in which the player is dragged into a corner of the play area.
DragStates ==
    { [Session(800, 0, 0) EXCEPT !.player.x = Du(45), !.player.y = Du(65),
                                 !.player.dragging = TRUE,
                                 !.player.shootTimer = SHOOT_COOLDOWN,
                                 !.touchX = 0, !.touchY = 0],
      [Session(800, 0, 0) EXCEPT !.player.x = Du(675), !.player.y = Du(1195),
                                 !.player.dragging = TRUE,
                                 !.player.shootTimer = SHOOT_COOLDOWN,
                                 !.touchX = 719, !.touchY = 1279] }

\* A session whose missiles and bombs are spent, with two enemies on screen.
SpentStates ==
    { [Session(4000, 2600, 14) EXCEPT !.player.ammo = 0, !.player.bombs = 0,
                                      !.enemies = << Enemy(0, 1, 150, 800, 30, 90),
                                                     Enemy(1, -1, 500, 400, 20, 60) >>] }

\* A boss fight 5 s after the boss arrived, with a heavy and a basic enemy
\* spawned before it, and a combo of 5 running.
CrowdStates ==
    LET boss == [Enemy(3, 1, 420, -50, 500, 20) EXCEPT !.vx = -100, !.moveTimer = 500]
    IN  { [Session(9500, 9000, 40) EXCEPT !.bossAlive = TRUE,
                                          !.combo = 5, !.comboTimer = 150,
                                          !.enemies = << Enemy(2, 1, 500, 400, 80, 40),
                                                         Enemy(0, -1, 150, 800, 30, 70),
                                                         boss >>] }

\* Sessions with damaged enemies 80 units in front of the player, within
\* reach of the bullets of the next shot: a basic enemy at combo 0, a fast
\* enemy during a combo of 7, and two basic enemies side by side.  In the
\* last state the player has picked up rapid fire 5 s ago.
GunStates ==
    { [Session(2000, 1200, 9) EXCEPT !.enemies = <<Enemy(0, 1, 360, 1000, 10, 90)>>],
      [Session(4000, 2600, 14) EXCEPT !.combo = 7, !.comboTimer = 120,
                                      !.enemies = <<Enemy(1, -1, 360, 1000, 20, 60)>>],
      [Session(2000, 1200, 9) EXCEPT !.enemies = << Enemy(0, 1, 352, 1000, 10, 90),
                                                    Enemy(0, -1, 368, 1000, 10, 40) >>],
      [Session(2000, 1250, 9) EXCEPT !.player.rapidFire = TRUE,
                                     !.player.rapidTimer = 300] }

\* A boss fight 40 s after the boss arrived: the boss, down to its last 10
\* hit points, patrols 75 units above the player, within reach of the
\* bullets and the missile of the next shot and of a bomb.
BossStates ==
    LET boss == [Enemy(3, 1, 360, 150, 10, 20) EXCEPT !.moveTimer = 4000]
    IN  { [Session(13000, 14000, 60) EXCEPT !.bossAlive = TRUE,
                                            !.player.y = Du(225),
                                            !.enemySpawnTimer = 48,
                                            !.enemies = <<boss>>] }

\* Sessions in which the cadence spawn is due within a frame: at 10 s, and
\* just before the elapsed time passes 30 s, 60 s and 90 s.  The spawn
\* accumulator is below the interval of the frame before.
DirectorStates ==
    { [Session(1000, 300, 3)    EXCEPT !.enemySpawnTimer = 177],
      [Session(2998, 1500, 12)  EXCEPT !.enemySpawnTimer = 139],
      [Session(5998, 4000, 28)  EXCEPT !.enemySpawnTimer = 79,
                                       !.powerupSpawnTimer = 600],
      [Session(8998, 8000, 45)  EXCEPT !.enemySpawnTimer = 49] }

(***************************************************************************)
(* States with projectiles in flight.  A projectile keeps the velocity it  *)
(* was fired with (an enemy's bullet 250, a missile 400, a homing missile  *)
(* up to 500 units per second) and a missile's life is 3 s less its time   *)
(* in flight.                                                              *)
(***************************************************************************)
\* a bullet at (x, y) in logical units
BulletAt(x, y, vx, vy, isEnemy, dmg) ==
    [x |-> Du(x), y |-> Du(y), vx |-> vx, vy |-> vy,
     active |-> TRUE, isEnemy |-> isEnemy, damage |-> dmg]

\* a missile at (x, y), fired at (tx, ty), in logical units
MissileAt(x, y, vx, vy, tx, ty, isEnemy, dmg, life) ==
    [x |-> Du(x), y |-> Du(y), vx |-> vx, vy |-> vy,
     targetX |-> Du(tx), targetY |-> Du(ty),
     active |-> TRUE, isEnemy |-> isEnemy, damage |-> dmg, life |-> life]

\* an explosion at (x, y), in tenths of a logical unit
ExplosionAt(x, y, sz, life) ==
    [x |-> x, y |-> y, maxRadius |-> sz, life |-> life, maxLife |-> EXPLOSION_LIFE]

\* Sessions in which a bullet and a missile of a heavy enemy are about to
\* reach the player, who has been hit by a bullet a moment ago: the
\* invincibility timer has 0.3 s left, or 0.04 s, less than the next capped
\* frame, and the explosion of the hit, one frame of 0.02 s older, is still
\* in its pool.
HitStates ==
    { [Session(6500, 4200, 30) EXCEPT
           !.player.hp = 90, !.player.invTimer = t,
           !.explosions = <<ExplosionAt(Du(360), Du(1080), 25, t - 2)>>,
           !.enemies = <<Enemy(2, 1, 360, 800, 80, 150)>>,
           !.bullets = <<BulletAt(360, 1045, 0, 250, TRUE, 10)>>,
           !.missiles = <<MissileAt(360, 1040, 0, 400, 360, 1080, TRUE, 25, 210)>>] :
        t \in {30, 4} }

\* Sessions with the shield picked up 2 s ago and an enemy's bullet, or a
\* heavy enemy's missile, about to reach the player.  The bullet meets a
\* shield of 5, less than its damage.
ShieldStates ==
    { [Session(2500, 1500, 12) EXCEPT
           !.player.shield = 5, !.player.shieldActive = TRUE,
           !.player.shieldTimer = 300,
           !.enemies = <<Enemy(0, 1, 360, 800, 30, 90)>>,
           !.bullets = <<BulletAt(360, 1045, 0, 250, TRUE, 10)>>],
      [Session(6500, 4200, 30) EXCEPT
           !.player.shield = 30, !.player.shieldActive = TRUE,
           !.player.shieldTimer = 300,
           !.enemies = <<Enemy(2, 1, 360, 800, 80, 150)>>,
           !.missiles = <<MissileAt(360, 1040, 0, 400, 360, 1080, TRUE, 25, 210)>>] }

\* Sessions with a combo whose timer is about to run out: one with the only
\* enemy out of reach, one with a damaged enemy 80 units in front of the
\* player.
ComboStates ==
    { [Session(4000, 2600, 14) EXCEPT !.combo = 3, !.comboTimer = 4,
                                      !.enemies = <<Enemy(1, -1, 500, 400, 20, 60)>>],
      [Session(2000, 1200, 9) EXCEPT !.combo = 2, !.comboTimer = 2,
                                     !.enemies = <<Enemy(0, 1, 360, 1000, 10, 90)>>] }

\* A session with one enemy 10 units beside the player and another 40
\* units above the player, where a missile of the player is spawned.
CoincideStates ==
    { [Session(2000, 1200, 9) EXCEPT
           !.enemies = << Enemy(0, 1, 370, 1080, 30, 90),
                          Enemy(0, -1, 360, 1040, 30, 40) >>] }

\* A session with two missiles 2.95 s in flight: one of a heavy enemy 45
\* units above the player, one of the player 45 units below an enemy.
ExpiryStates ==
    { [Session(6500, 4200, 30) EXCEPT
           !.enemies = << Enemy(0, 1, 200, 500, 30, 90),
                          Enemy(2, 1, 500, 300, 80, 150) >>,
           !.missiles = << MissileAt(360, 1035, 0, 400, 360, 1080, TRUE, 25, 5),
                           MissileAt(200, 545, 0, -500, 200, 500, FALSE,
                                     MISSILE_DAMAGE, 5) >>] }

\* the states one capped frame after the states S, over every draw
Warm(S) == UNION { { updateGame(s, DT_CAP, rnd) : rnd \in Draws(s, DT_CAP) } : s \in S }

Init ==
    \/ Constructed
    \/ StartIn(Warm(LifeStates))
    \/ StartIn(DragStates \cup SpentStates \cup CrowdStates)
    \/ StartIn(GunStates \cup BossStates \cup DirectorStates)

\* A session with projectiles about to leave the area: a bullet of the
\* player at the upper edge, a missile of the player above it, and a bullet
\* and a missile of the enemies below the lower edge, fired at a player who
\* has moved on.  A heavy enemy spawned 0.77 s ago, 34 units above the
\* area, is about to shoot for the first time.
EdgeStates ==
    { [Session(6500, 4200, 30) EXCEPT
           !.enemies = <<Enemy(2, 1, 360, -34, 80, 3)>>,
           !.bullets = << BulletAt(360, -10, 0, -BULLET_SPEED, FALSE, BULLET_DAMAGE),
                          BulletAt(200, 1295, 0, 250, TRUE, 10) >>,
           !.missiles = << MissileAt(500, -40, 0, -MISSILE_SPEED, 500, -100, FALSE,
                                     MISSILE_DAMAGE, 20),
                           MissileAt(200, 1320, 0, MISSILE_SPEED, 200, 1080, TRUE,
                                     25, 170) >>] }

\* the sessions with projectiles in flight
CombatInit ==
    \/ StartIn(HitStates \cup ShieldStates)
    \/ StartIn(ComboStates \cup CoincideStates \cup ExpiryStates)
    \/ StartIn(EdgeStates)

\* SDL_FINGERDOWN, SDL_FINGERMOTION, SDL_MOUSEBUTTONDOWN, SDL_MOUSEMOTION
\* with the left button held
Touch(tx, ty) ==
    /\ polled < MaxEvents
    /\ g' = handleTouch(g, tx, ty)
    /\ pre' = g
    /\ stage' = Still(g')
    /\ last' = [NoEvent EXCEPT !.ev = "touch", !.x = tx, !.y = ty]
    /\ polled' = polled + 1
    /\ UNCHANGED frames

\* SDL_FINGERUP, SDL_MOUSEBUTTONUP
TouchUp ==
    /\ polled < MaxEvents
    /\ g' = handleTouchUp(g)
    /\ pre' = g
    /\ stage' = Still(g')
    /\ last' = [NoEvent EXCEPT !.ev = "up"]
    /\ polled' = polled + 1
    /\ UNCHANGED frames

\* SDL_KEYDOWN
KeyDown(k) ==
    /\ polled < MaxEvents
    /\ g' = handleKey(g, k)
    /\ pre' = g
    /\ stage' = Still(g')
    /\ last' = [NoEvent EXCEPT !.ev = "key", !.key = k]
    /\ polled' = polled + 1
    /\ UNCHANGED frames

\* the update of one pass of main's loop, with the frame time dt
Frame(dt) ==
    /\ frames < MaxFrames
    /\ \E rnd \in (IF g.state = STATE_PLAYING THEN Draws(g, dt) ELSE {NoDraw}) :
           /\ g' = UpdateSwitch(g, dt, rnd)
           /\ stage' = IF g.state = STATE_PLAYING THEN Inside(g, dt, rnd) ELSE Still(g)
    /\ pre' = g
    /\ last' = [NoEvent EXCEPT !.ev = "frame", !.dt = dt]
    /\ polled' = 0
    /\ frames' = frames + 1

Next ==
    \/ \E pt \in TouchPoints : Touch(pt[1], pt[2])
    \/ TouchUp
    \/ \E k \in Keys : KeyDown(k)
    \/ \E dt \in DtSet : Frame(dt)

Spec == Init /\ [][Next]_vars

CombatSpec == CombatInit /\ [][Next]_vars

(***************************************************************************)
(* Long runs.  Frames of the capped frame time follow one another for      *)
(* longer than the longest spawn interval (2 s), with the bomb as the only *)
(* input.  main's loop calls updateGame in every pass, so the frame is     *)
(* taken as long as it can be.                                             *)
(***************************************************************************)
\* A boss fight with one bomb left and the boss within its reach, and a
\* session 10 s old whose spawn accumulator has just restarted.
LiveStates ==
    { [s EXCEPT !.player.bombs = 1] : s \in BossStates }
    \cup
    { [Session(1000, 300, 3) EXCEPT !.player.bombs = 1,
                                    !.enemies = <<Enemy(0, 1, 150, 300, 30, 90)>>] }

LiveInit == StartIn(LiveStates)

LiveDts == {DT_CAP}

\* the update of one pass of main's loop in a long run
LiveFrame(dt) ==
    /\ frames < MaxLiveFrames
    /\ \E rnd \in (IF g.state = STATE_PLAYING THEN Draws(g, dt) ELSE {NoDraw}) :
           /\ g' = UpdateSwitch(g, dt, rnd)
           /\ stage' = IF g.state = STATE_PLAYING THEN Inside(g, dt, rnd) ELSE Still(g)
    /\ pre' = g
    /\ last' = [NoEvent EXCEPT !.ev = "frame", !.dt = dt]
    /\ polled' = 0
    /\ frames' = frames + 1

LiveFrames == \E dt \in LiveDts : LiveFrame(dt)

LiveNext ==
    \/ KeyDown("b")
    \/ LiveFrames

\* a pass of the loop: the steps of LiveNext that count a frame are those
\* of LiveFrames, which can be taken whenever the run has frames left
Pass == frames < MaxLiveFrames /\ frames' = frames + 1

LiveSpec == LiveInit /\ [][LiveNext]_vars /\ WF_frames(Pass)

(***************************************************************************)
(* Properties.  pre is the Game object before the step that led to the     *)
(* current state and last the event of that step.                          *)
(***************************************************************************)
Touched(rect) == last.ev = "touch" /\ pointInRect(last.x, last.y, rect)
Pressed(k)    == last.ev = "key" /\ last.key = k

\* the step called playerFireMissile / playerBomb
MissileEvent == pre.state = STATE_PLAYING /\ (Pressed("m") \/ Touched(btnMissile))
BombEvent    == pre.state = STATE_PLAYING /\ (Pressed("b") \/ Touched(btnBomb))

\* C1: the session state changes only by Menu -> Playing on a touch,
\* Playing -> Paused on the pause button or the key p, Paused -> Playing on
\* a touch or the key p, Playing -> GameOver in a frame that leaves no
\* lives, and GameOver -> Playing on a touch.
C1_OnlyDefinedTransitions ==
    g.state # pre.state =>
        \/ pre.state = STATE_MENU /\ g.state = STATE_PLAYING /\ last.ev = "touch"
        \/ pre.state = STATE_PLAYING /\ g.state = STATE_PAUSED
              /\ (Touched(btnPause) \/ Pressed("p"))
        \/ pre.state = STATE_PAUSED /\ g.state = STATE_PLAYING
              /\ (last.ev = "touch" \/ Pressed("p"))
        \/ pre.state = STATE_PLAYING /\ g.state = STATE_GAMEOVER
              /\ last.ev = "frame" /\ g.player.lives = 0
        \/ pre.state = STATE_GAMEOVER /\ g.state = STATE_PLAYING /\ last.ev = "touch"

\* a touch has restarted a finished session
C1_Witness ==
    pre.state = STATE_GAMEOVER /\ g.state = STATE_PLAYING /\ last.ev = "touch"

\* C2: the session state is always Menu, Playing, Paused or GameOver, the
\* constructed session is in Menu, and Win is never entered.
C2_StateClosure ==
    /\ g.state \in {STATE_MENU, STATE_PLAYING, STATE_PAUSED, STATE_GAMEOVER}
    /\ g.state # STATE_WIN
    /\ (frames = 0 /\ last = NoEvent /\ g.gameTime = 0 => g.state = STATE_MENU)

\* a frame has ended the session
C2_Witness ==
    pre.state = STATE_PLAYING /\ g.state = STATE_GAMEOVER /\ last.ev = "frame"

\* C3: in every GameOver state the high score is at least the score.
C3_HighScoreRecorded ==
    g.state = STATE_GAMEOVER => g.highScore >= g.player.score

\* C4: a touch in GameOver empties the five pools, sets the elapsed time to
\* 0 and the boss latch to false, gives every player field its initial
\* value and enters Playing.
C4_RestartResets ==
    pre.state = STATE_GAMEOVER /\ last.ev = "touch" =>
        /\ g.state = STATE_PLAYING
        /\ g.bullets = <<>> /\ g.missiles = <<>> /\ g.enemies = <<>>
        /\ g.powerups = <<>> /\ g.explosions = <<>>
        /\ g.gameTime = 0
        /\ g.bossAlive = FALSE
        /\ g.player = NewGame.player
        /\ g.player.hp = 100 /\ g.player.shield = 50 /\ g.player.lives = 3
        /\ g.player.score = 0 /\ g.player.level = 1 /\ g.player.kills = 0
        /\ g.player.ammo = 10 /\ g.player.bombs = 3 /\ ~g.player.dragging
        /\ g.player.shootTimer = 0 /\ g.player.invTimer = 0
        /\ g.player.rapidTimer = 0 /\ g.player.shieldTimer = 0

\* a touch has restarted a session that ended with a score, enemies and
\* explosions in its pools
C4_Witness ==
    /\ pre.state = STATE_GAMEOVER /\ last.ev = "touch"
    /\ pre.player.score > 0 /\ pre.enemies # <<>> /\ pre.explosions # <<>>

\* what the simulation owns: the pools, the player's counters and position,
\* the elapsed time, the spawn accumulators, the boss latch and the combo
SimView(G) ==
    << G.bullets, G.missiles, G.enemies, G.powerups, G.explosions,
       G.player.hp, G.player.shield, G.player.lives, G.player.score,
       G.player.ammo, G.player.bombs, G.player.kills, G.player.level,
       G.player.x, G.player.y,
       G.gameTime, G.enemySpawnTimer, G.powerupSpawnTimer, G.bossAlive, G.combo >>

\* C5: in Menu, Paused and GameOver no frame, no key (fire, missile, bomb,
\* pause) and no touch other than the restarting touch in GameOver changes
\* anything the simulation owns.
C5_OnlyPlayingSimulates ==
    /\ pre.state \in {STATE_MENU, STATE_PAUSED, STATE_GAMEOVER}
    /\ ~(pre.state = STATE_GAMEOVER /\ last.ev = "touch")
    => SimView(g) = SimView(pre)

\* a frame of positive length has passed in Paused with enemies on screen
C5_Witness ==
    /\ pre.state = STATE_PAUSED /\ last.ev = "frame" /\ last.dt > 0
    /\ pre.enemies # <<>>

\* C6: the player's health is within [0, maxHealth] in every state.
C6_HealthInRange ==
    0 <= g.player.hp /\ g.player.hp <= g.player.maxHp

\* C7: the shield is within [0, maxShield] and ammo, bombs and lives are
\* at least 0 in every state.
C7_CountersInRange ==
    /\ 0 <= g.player.shield /\ g.player.shield <= g.player.maxShield
    /\ g.player.ammo >= 0
    /\ g.player.bombs >= 0
    /\ g.player.lives >= 0

\* a bullet of damage 10 has hit an active shield of 5
C7_Witness ==
    /\ last.ev = "frame" /\ pre.player.shieldActive
    /\ pre.player.shield = 5 /\ g.player.shield = 0

\* C8: the player is inside the margins of the play area in every state:
\* 40 <= x <= SCREEN_W - 40 and 60 <= y <= PLAY_H - 80.
C8_PlayerInsideMargins ==
    /\ Du(40) <= g.player.x /\ g.player.x <= Du(SCREEN_W - 40)
    /\ Du(60) <= g.player.y /\ g.player.y <= Du(PLAY_H - 80)

\* a frame has dragged the player onto the right and the lower margin
C8_Witness ==
    /\ last.ev = "frame" /\ pre.player.dragging
    /\ pre.player.x < g.player.x /\ g.player.x = Du(SCREEN_W - 40)
    /\ pre.player.y < g.player.y /\ g.player.y = Du(PLAY_H - 80)

\* C9: a missile fired with ammo = 0 and a bomb dropped with bombs = 0 leave
\* the whole Game object as it was.
C9_ExhaustedActionsAreNoOps ==
    /\ MissileEvent /\ pre.player.ammo = 0 => g = pre
    /\ BombEvent /\ pre.player.bombs = 0 => g = pre

\* the missile key or button was used with no ammo and enemies on screen
C9_Witness ==
    MissileEvent /\ pre.player.ammo = 0 /\ pre.enemies # <<>>

\* the sum of the scores of the active enemies of es that 150 damage kills
RECURSIVE BombKillScore(_)
BombKillScore(es) ==
    IF es = <<>> THEN 0
    ELSE (IF Head(es).active /\ Head(es).hp <= 150 THEN Head(es).score ELSE 0)
         + BombKillScore(Tail(es))

PlayedFrame == last.ev = "frame" /\ pre.state = STATE_PLAYING

\* the enemies (by index) that the bullet loop of the last frame killed
GunKilled ==
    { j \in 1..Len(stage.spawned.enemies) :
        stage.spawned.enemies[j].active /\ ~stage.shot.enemies[j].active }

\* C11: a frame whose bullet loop brings n >= 1 enemies to hp <= 0
\* deactivates them, adds n to kills and to the combo and sets the combo
\* timer to 2 s; for n = 1 the score grows by the enemy's score times
\* (1 + combo \div 5) with the combo before the kill, which is 100 for a
\* basic enemy at combo 0.
C11_GunKill ==
    PlayedFrame /\ GunKilled # {} =>
        /\ \A j \in GunKilled : stage.shot.enemies[j].hp <= 0
        /\ \A j \in 1..Len(stage.spawned.enemies) :
              stage.spawned.enemies[j].active /\ stage.shot.enemies[j].hp <= 0
                  => j \in GunKilled
        /\ stage.shot.player.kills = stage.spawned.player.kills + Cardinality(GunKilled)
        /\ stage.shot.combo = stage.spawned.combo + Cardinality(GunKilled)
        /\ stage.shot.comboTimer = 200
        /\ \A j \in GunKilled : Cardinality(GunKilled) = 1 =>
              /\ stage.shot.player.score = stage.spawned.player.score
                     + stage.spawned.enemies[j].score * (1 + stage.spawned.combo \div 5)
              /\ stage.spawned.enemies[j].type = 0 /\ stage.spawned.combo = 0
                     => /\ stage.shot.player.score = stage.spawned.player.score + 100
                        /\ stage.shot.combo = 1
        /\ g.player.kills >= pre.player.kills + Cardinality(GunKilled)
        /\ \A k \in 1..Len(g.enemies) : g.enemies[k].hp > 0

\* the gun has killed one enemy during a combo of at least 5
C11_Witness ==
    /\ PlayedFrame /\ Cardinality(GunKilled) = 1
    /\ stage.spawned.combo >= 5
    /\ g.player.score > pre.player.score

\* the bullet or missile loop of the last frame hit the player
PlayerHit ==
    PlayedFrame /\ stage.fought.player.invTimer > stage.spawned.player.invTimer

\* C12: a hit on a player with more than one life either leaves the health
\* above 0 and the lives as they were, or (the health having reached <= 0)
\* takes exactly one life, restores the health to maxHealth and sets the
\* invulnerability timer to 3.0 s; the session stays in Playing.
C12_LifeLossRespawn ==
    PlayerHit /\ stage.spawned.player.lives > 1 =>
        LET b == stage.spawned.player
            a == stage.fought.player
        IN  /\ g.state = STATE_PLAYING
            /\ a.hp > 0
            /\ \/ a.lives = b.lives /\ a.hp <= b.hp /\ a.invTimer \in {50, 100}
               \/ a.lives = b.lives - 1 /\ a.hp = a.maxHp /\ a.invTimer = 300
            /\ g.player.lives = a.lives
            /\ g.player.invTimer = a.invTimer

\* a hit has taken the second-last life and the player has respawned
C12_Witness ==
    /\ PlayerHit /\ stage.spawned.player.lives = 2 /\ stage.spawned.player.hp <= 20
    /\ g.player.lives = 1 /\ g.player.hp = g.player.maxHp
    /\ g.state = STATE_PLAYING

\* the step called playerShoot from a key or the fire button
FireEvent == pre.state = STATE_PLAYING /\ (Pressed("SPACE") \/ Touched(btnFire))

\* bs is as extended by two player bullets
TwoPlayerBullets(as, bs) ==
    /\ Len(bs) = Len(as) + 2
    /\ SubSeq(bs, 1, Len(as)) = as
    /\ \A k \in Len(as) + 1 .. Len(bs) : bs[k].active /\ ~bs[k].isEnemy

\* C13: firing the gun with the cooldown timer > 0 changes nothing;
\* otherwise it adds exactly two player bullets and sets the cooldown timer
\* to 0.05 s under rapid fire and to 0.15 s without.  The auto-fire of a
\* frame while dragging obeys the same rule with the timer as decremented
\* by that frame, and a frame without dragging adds no bullet before its
\* enemy loop.
C13_GunCooldown ==
    /\ FireEvent /\ pre.player.shootTimer > 0 => g = pre
    /\ FireEvent /\ pre.player.shootTimer <= 0 =>
          /\ TwoPlayerBullets(pre.bullets, g.bullets)
          /\ g.player.shootTimer = IF pre.player.rapidFire THEN 5 ELSE 15
          /\ g.missiles = pre.missiles /\ g.enemies = pre.enemies
    /\ PlayedFrame =>
          IF pre.player.dragging /\ pre.player.shootTimer - last.dt <= 0
          THEN /\ TwoPlayerBullets(pre.bullets, stage.spawned.bullets)
               /\ stage.spawned.player.shootTimer
                      = IF stage.spawned.player.rapidFire THEN 5 ELSE 15
          ELSE /\ stage.spawned.bullets = pre.bullets
               /\ stage.spawned.player.shootTimer
                      = IF pre.player.shootTimer - last.dt > 0
                        THEN pre.player.shootTimer - last.dt ELSE 0

\* the gun was fired under rapid fire with the cooldown timer at 0
C13_Witness ==
    /\ FireEvent /\ pre.player.shootTimer = 0 /\ pre.player.rapidFire
    /\ Len(g.bullets) = Len(pre.bullets) + 2
    /\ g.player.shootTimer = 5

\* the squared distance of enemy e from the player p
Dist2(p, e) == (e.x - p.x) * (e.x - p.x) + (e.y - p.y) * (e.y - p.y)

\* C14: a missile fired with ammo > 0 takes one unit of ammo and appends
\* one player missile to the missile pool; its target is the position of
\* an active enemy that no active enemy is nearer to the player than, or
\* the point 100 units above the top of the screen straight above the
\* player when no enemy is active, and no component of its velocity points
\* away from that target;
\* nothing else in the Game object changes.
C14_MissileFired ==
    MissileEvent /\ pre.player.ammo > 0 =>
        LET p      == pre.player
            active == { j \in 1..Len(pre.enemies) : pre.enemies[j].active }
            m      == g.missiles[Len(g.missiles)]
        IN  /\ g.player.ammo = p.ammo - 1
            /\ Len(g.missiles) = Len(pre.missiles) + 1
            /\ [g EXCEPT !.missiles = pre.missiles, !.player.ammo = p.ammo] = pre
            /\ m.active /\ ~m.isEnemy
            /\ m.x = p.x /\ m.y = p.y - Du(40)
            /\ IF active = {}
               THEN m.targetX = p.x /\ m.targetY = Du(-100)
                    /\ m.vx = 0 /\ m.vy = -400
               ELSE \E j \in active :
                        /\ m.targetX = pre.enemies[j].x
                        /\ m.targetY = pre.enemies[j].y
                        /\ \A k \in active :
                              Dist2(p, pre.enemies[j]) <= Dist2(p, pre.enemies[k])
            /\ m.vx * (m.targetX - m.x) >= 0
            /\ m.vy * (m.targetY - m.y) >= 0
            /\ (m.targetX # m.x \/ m.targetY # m.y) => (m.vx # 0 \/ m.vy # 0)

\* a missile was fired at the nearest of several enemies, which is not the
\* last of the pool
C14_Witness ==
    /\ MissileEvent /\ pre.player.ammo > 0 /\ Len(pre.enemies) >= 3
    /\ Len(g.missiles) = Len(pre.missiles) + 1
    /\ g.missiles[Len(g.missiles)].targetX # pre.enemies[Len(pre.enemies)].x

(***************************************************************************)
(* The high score                                                          *)
(***************************************************************************)
\* C15: no step lowers the high score, and the restart from GameOver
\* leaves it as it was.
C15_HighScoreKept ==
    /\ g.highScore >= pre.highScore
    /\ pre.state = STATE_GAMEOVER /\ g.state = STATE_PLAYING
          => g.highScore = pre.highScore

\* a session that recorded a high score has been restarted
C15_Witness ==
    /\ pre.state = STATE_GAMEOVER /\ g.state = STATE_PLAYING
    /\ pre.highScore > 0 /\ g.player.score = 0

(***************************************************************************)
(* The spawn director                                                      *)
(***************************************************************************)
\* the number of enemies of the given archetypes in the pool es
RECURSIVE CountOf(_, _)
CountOf(es, types) ==
    IF es = <<>> THEN 0
    ELSE (IF Head(es).type \in types THEN 1 ELSE 0) + CountOf(Tail(es), types)

\* the bosses and the other enemies the spawn code of the last frame added
BossesSpawned == CountOf(stage.spawned.enemies, {3}) - CountOf(pre.enemies, {3})
JetsSpawned   == CountOf(stage.spawned.enemies, 0..2) - CountOf(pre.enemies, 0..2)

\* C16: a session spawns its boss once.  The elapsed time exceeds 90 s for
\* the first time in a frame that starts at 90 s or before, and that frame
\* spawns the boss of a session without one; a frame that starts beyond
\* 90 s spawns no boss, whether the first boss lives or has died.
C16_BossOnlyOnce ==
    PlayedFrame =>
        /\ pre.gameTime <= 9000 /\ pre.gameTime + last.dt > 9000 /\ ~pre.bossAlive
              => BossesSpawned = 1
        /\ pre.gameTime > 9000 => BossesSpawned = 0

\* C17: at the end of every frame the boss-alive latch is true exactly when
\* the enemy pool holds an active boss, whichever weapon killed the boss.
C17_LatchFollowsBoss ==
    last.ev = "frame" =>
        (g.bossAlive <=> \E k \in 1..Len(g.enemies) :
                             g.enemies[k].type = 3 /\ g.enemies[k].active)

\* C18 as claimed: no basic, fast or heavy enemy is spawned in a frame that
\* starts with the boss-alive latch true or that spawns a boss.
C18_NoCadenceWithBoss ==
    PlayedFrame /\ (pre.bossAlive \/ BossesSpawned > 0) => JetsSpawned = 0

\* C18 amended: no basic, fast or heavy enemy is spawned in a frame that
\* starts with the boss-alive latch true.
C18_NoCadenceWhileLatched ==
    PlayedFrame /\ pre.bossAlive => JetsSpawned = 0

\* the accumulator has reached the interval during a boss fight and has
\* restarted without a spawn
C18_Witness ==
    /\ PlayedFrame /\ pre.bossAlive
    /\ pre.enemySpawnTimer + last.dt >= 50
    /\ g.enemySpawnTimer = 0
    /\ Len(stage.spawned.enemies) = Len(pre.enemies)

\* the enemy the cadence spawn of the last frame added
CadenceEnemy == stage.spawned.enemies[Len(pre.enemies) + 1]

\* C19: a cadence-spawned enemy is basic while the elapsed time is below
\* 30 s, basic or fast up to 60 s, and basic, fast or heavy after; so no
\* fast enemy spawns before 30 s, no heavy before 60 s, and never a boss.
C19_ArchetypeByTime ==
    PlayedFrame /\ JetsSpawned > 0 =>
        LET t == stage.spawned.gameTime
        IN  /\ CadenceEnemy.type \in {0, 1, 2}
            /\ t < 3000 => CadenceEnemy.type = 0
            /\ t <= 6000 => CadenceEnemy.type \in {0, 1}
            /\ CadenceEnemy.type = 1 => t >= 3000
            /\ CadenceEnemy.type = 2 => t >= 6000

\* a fast enemy has spawned between 30 s and 60 s
C19_Witness ==
    /\ PlayedFrame /\ JetsSpawned = 1
    /\ CadenceEnemy.type = 1
    /\ stage.spawned.gameTime > 3000 /\ stage.spawned.gameTime < 6000

\* the accumulator of the last frame has reached max(0.5 s, 2.0 s - 0.02 t)
\* at the elapsed time t of that frame
CadenceReached ==
    LET acc == pre.enemySpawnTimer + last.dt
    IN  acc >= 50 /\ 50 * acc >= 10000 - stage.spawned.gameTime

\* C20: a step that is not a Playing frame leaves the accumulator as it is
\* and adds no enemy.  A Playing frame adds dt to it and spawns at most one
\* cadence enemy, and only if the accumulator has reached
\* max(0.5 s, 2.0 s - 0.02 t); once reached, the accumulator restarts from
\* 0.  So at least 0.5 s of Playing frames separate two cadence spawns.
C20_Cadence ==
    /\ ~PlayedFrame =>
          /\ g.enemySpawnTimer = pre.enemySpawnTimer
          /\ Len(g.enemies) <= Len(pre.enemies)
    /\ PlayedFrame =>
          /\ JetsSpawned \in {0, 1}
          /\ JetsSpawned = 1 => CadenceReached
          /\ g.enemySpawnTimer = IF CadenceReached THEN 0
                                 ELSE pre.enemySpawnTimer + last.dt
          /\ JetsSpawned = 1 => pre.enemySpawnTimer + last.dt >= 50

\* a cadence spawn at an interval above the floor: the accumulator has
\* reached 1.8 s at 10 s
C20_Witness ==
    /\ PlayedFrame /\ JetsSpawned = 1
    /\ pre.enemySpawnTimer + last.dt > 50
    /\ pre.enemySpawnTimer < 200 - pre.gameTime \div 50
    /\ g.enemySpawnTimer = 0

(***************************************************************************)
(* Collisions                                                              *)
(***************************************************************************)
\* the sum of the hit points of the enemies of the pool es
RECURSIVE HpSum(_)
HpSum(es) == IF es = <<>> THEN 0 ELSE Head(es).hp + HpSum(Tail(es))

\* the player's projectiles of the pool as that are inactive in the pool bs
\* of the same length
Spent(as, bs) ==
    { i \in 1..Len(as) : as[i].active /\ ~as[i].isEnemy /\ ~bs[i].active }

\* C21: a player bullet or missile takes its damage from at most one
\* enemy.  So the hit points the enemies lose in the bullet loop of a frame
\* are at most 10 for each player bullet the loop deactivates, and those
\* they lose in the missile loop at most 50 for each player missile.
C21_SingleCollision ==
    PlayedFrame =>
        /\ HpSum(stage.spawned.enemies) - HpSum(stage.shot.enemies)
              <= 10 * Cardinality(Spent(stage.spawned.bullets, stage.shot.bullets))
        /\ HpSum(stage.shot.enemies) - HpSum(stage.fought.enemies)
              <= 50 * Cardinality(Spent(stage.shot.missiles, stage.fought.missiles))

\* the enemies (by index) that the missile loop of the last frame killed
MissileKilled ==
    { j \in 1..Len(stage.shot.enemies) :
        stage.shot.enemies[j].active /\ ~stage.fought.enemies[j].active }

\* the sum of the scores of the enemies of es at the indices of K
RECURSIVE ScoreSum(_, _)
ScoreSum(es, K) ==
    IF K = {} THEN 0
    ELSE LET j == CHOOSE k \in K : TRUE
         IN  es[j].score + ScoreSum(es, K \ {j})

\* C24: the missile loop of a frame deactivates exactly the enemies it
\* brings to hp <= 0, and for them adds twice their scores to the score,
\* whatever the combo, and their number to kills.
C24_MissileKill ==
    PlayedFrame /\ MissileKilled # {} =>
        /\ \A j \in MissileKilled : stage.fought.enemies[j].hp <= 0
        /\ \A j \in 1..Len(stage.shot.enemies) :
              stage.shot.enemies[j].active /\ stage.fought.enemies[j].hp <= 0
                  => j \in MissileKilled
        /\ stage.fought.player.score = stage.shot.player.score
               + 2 * ScoreSum(stage.shot.enemies, MissileKilled)
        /\ stage.fought.player.kills = stage.shot.player.kills
               + Cardinality(MissileKilled)

\* a missile has killed an enemy during a combo of at least 5
C24_Witness ==
    /\ PlayedFrame /\ Cardinality(MissileKilled) = 1
    /\ stage.shot.combo >= 5
    /\ g.player.score > pre.player.score

\* the number of enemies the bomb of the last event killed
BombKilled ==
    Cardinality({ j \in 1..Len(pre.enemies) :
                    pre.enemies[j].active /\ ~g.enemies[j].active })

\* C25: every kill by the gun, by a missile or by the bomb adds one to the
\* combo and sets the combo timer to 2 s.
C25_KillExtendsCombo ==
    /\ PlayedFrame /\ GunKilled # {} =>
          /\ stage.shot.combo = stage.spawned.combo + Cardinality(GunKilled)
          /\ stage.shot.comboTimer = 200
    /\ PlayedFrame /\ MissileKilled # {} =>
          /\ stage.fought.combo = stage.shot.combo + Cardinality(MissileKilled)
          /\ stage.fought.comboTimer = 200
    /\ BombEvent /\ pre.player.bombs > 0 /\ BombKilled > 0 =>
          /\ g.combo = pre.combo + BombKilled
          /\ g.comboTimer = 200

\* the last frame killed a boss
BossKilled ==
    /\ PlayedFrame
    /\ \E j \in 1..Len(stage.spawned.enemies) :
          /\ stage.spawned.enemies[j].type = 3
          /\ stage.spawned.enemies[j].active
          /\ ~stage.fought.enemies[j].active

\* C27: at the end of a frame that kills a boss the level is one more than
\* the level of the elapsed time, 1 + gameTime \div 30 s.
C27_BossKillLevel ==
    BossKilled => g.player.level = LevelOf(g.gameTime) + 1

(***************************************************************************)
(* Hits on the player                                                      *)
(***************************************************************************)
\* the projectile r is within d logical units of the player of G
NearPlayer(G, r, d) == dist2D(r.x, r.y, G.player.x, G.player.y) < Du(d)

\* C22: in a frame in which the invincibility timer is above 0 after the
\* timers have been updated, the bullet loop and the missile loop leave the
\* player's health, shield and lives as they were, and every bullet and
\* missile of the enemies stays active unless it leaves the area or its
\* life runs out.
C22_Invincible ==
    PlayedFrame /\ stage.spawned.player.invTimer > 0 =>
        /\ stage.fought.player.hp = stage.spawned.player.hp
        /\ stage.fought.player.shield = stage.spawned.player.shield
        /\ stage.fought.player.lives = stage.spawned.player.lives
        /\ stage.fought.state = STATE_PLAYING
        /\ \A i \in 1..Len(stage.spawned.bullets) :
              stage.spawned.bullets[i].active /\ stage.spawned.bullets[i].isEnemy
                  => \/ stage.fought.bullets[i].active
                     \/ BulletOut(stage.fought.bullets[i])
        /\ \A i \in 1..Len(stage.spawned.missiles) :
              stage.spawned.missiles[i].active /\ stage.spawned.missiles[i].isEnemy
                  => \/ stage.fought.missiles[i].active
                     \/ MissileOut(stage.fought.missiles[i])
                     \/ stage.fought.missiles[i].life <= 0

\* a bullet and a missile of the enemies have come within reach of the
\* player while the invincibility timer was above 0, and fly on
C22_Witness ==
    /\ PlayedFrame /\ stage.spawned.player.invTimer > 0
    /\ \E i \in 1..Len(stage.fought.bullets) :
          /\ stage.fought.bullets[i].active /\ stage.fought.bullets[i].isEnemy
          /\ NearPlayer(stage.fought, stage.fought.bullets[i], PLAYER_HIT_R)
          /\ \E k \in 1..Len(g.bullets) : g.bullets[k] = stage.fought.bullets[i]
    /\ \E i \in 1..Len(stage.fought.missiles) :
          /\ stage.fought.missiles[i].active /\ stage.fought.missiles[i].isEnemy
          /\ NearPlayer(stage.fought, stage.fought.missiles[i], MISSILE_HIT_R)
          /\ \E k \in 1..Len(g.missiles) : g.missiles[k] = stage.fought.missiles[i]

\* the damages of the active enemy projectiles of the pool rs
Damages(rs) == { rs[i].damage : i \in { k \in 1..Len(rs) : rs[k].active /\ rs[k].isEnemy } }

\* the loop that leads from the player a to the player b has hit it, and
\* the shield has taken the damage of one of the projectiles rs
Absorbed(a, b, rs) ==
    /\ b.hp = a.hp
    /\ \E d \in Damages(rs) : b.shield = Max(0, a.shield - d)

\* C23: a hit on the player by an enemy's bullet or missile while the
\* shield is active and above 0 takes the damage from the shield, not below
\* 0, and leaves the health as it was.  A hit sets the invincibility timer,
\* which was 0, to a positive value.
C23_ShieldAbsorbs ==
    PlayedFrame =>
        /\ ( /\ stage.shot.player.invTimer > stage.spawned.player.invTimer
             /\ stage.spawned.player.shieldActive
             /\ stage.spawned.player.shield > 0 )
               => Absorbed(stage.spawned.player, stage.shot.player,
                           stage.spawned.bullets)
        /\ ( /\ stage.fought.player.invTimer > stage.shot.player.invTimer
             /\ stage.shot.player.shieldActive
             /\ stage.shot.player.shield > 0 )
               => Absorbed(stage.shot.player, stage.fought.player,
                           stage.shot.missiles)

(***************************************************************************)
(* The combo                                                               *)
(***************************************************************************)
\* C26: whenever the combo is above 0 its timer is above 0, and the combo
\* is 0 after a frame that starts with a combo timer of at most the frame
\* time and kills no enemy.
C26_ComboNeedsTimer ==
    /\ g.combo > 0 => g.comboTimer > 0
    /\ ( /\ PlayedFrame /\ pre.comboTimer <= last.dt
         /\ GunKilled = {} /\ MissileKilled = {} )
           => g.combo = 0

\* a combo has elapsed in a frame without a kill
C26_Witness ==
    /\ PlayedFrame /\ pre.combo > 0 /\ pre.comboTimer <= last.dt
    /\ GunKilled = {} /\ MissileKilled = {}
    /\ g.combo = 0 /\ g.comboTimer = 0

(***************************************************************************)
(* Missiles in flight                                                      *)
(***************************************************************************)
\* an active enemy of G is at the position of the missile m
Coincides(G, m) ==
    \E j \in 1..Len(G.enemies) :
        /\ G.enemies[j].active
        /\ G.enemies[j].x = m.x /\ G.enemies[j].y = m.y

\* C28: a homing missile whose nearest target is at its own position keeps
\* its velocity in that frame.  The missile is the first of the player's in
\* the pool, so the enemies it sees are those the bullet loop has left.
C28_ZeroLengthKeepsVelocity ==
    PlayedFrame =>
        \A i \in 1..Len(stage.shot.missiles) :
            LET m == stage.shot.missiles[i]
            IN  ( /\ m.active /\ ~m.isEnemy /\ m.life > last.dt
                  /\ Coincides(stage.shot, m)
                  /\ \A k \in 1..(i - 1) : stage.shot.missiles[k].isEnemy )
                    => /\ stage.fought.missiles[i].vx = m.vx
                       /\ stage.fought.missiles[i].vy = m.vy

\* the missile m after flying on for dt
Moved(m, dt) ==
    [m EXCEPT !.x = @ + TDiv(m.vx * dt, 10), !.y = @ + TDiv(m.vy * dt, 10)]

\* the missiles of the pool ms, of the enemies or of the player, whose life
\* runs out within dt
Expiring(ms, isEnemy, dt) ==
    { i \in 1..Len(ms) : ms[i].isEnemy = isEnemy /\ ms[i].life <= dt }

\* what a hit changes of the player p
Health(p) == <<p.hp, p.shield, p.lives, p.invTimer>>

\* the missiles of the pool ms of the enemies or of the player
Flying(ms, isEnemy) == { i \in 1..Len(ms) : ms[i].isEnemy = isEnemy }

\* C29: a missile starts with a life of 3 s and every frame takes the frame
\* time from it; in the frame in which the life reaches 0 or less the
\* missile is deactivated where it is, and a frame in which every missile
\* of one side expires leaves the other side untouched by the missile loop;
\* every missile in the pool has a life above 0 and of at most 3 s.
C29_MissileExpiry ==
    /\ \A i \in 1..Len(g.missiles) :
          g.missiles[i].life > 0 /\ g.missiles[i].life <= MISSILE_LIFE
    /\ (MissileEvent /\ Len(g.missiles) > Len(pre.missiles))
          => g.missiles[Len(g.missiles)].life = MISSILE_LIFE
    /\ PlayedFrame =>
          /\ Len(stage.fought.missiles) = Len(pre.missiles)
          /\ \A i \in 1..Len(pre.missiles) :
                /\ stage.fought.missiles[i].life = pre.missiles[i].life - last.dt
                /\ pre.missiles[i].life <= last.dt
                      => stage.fought.missiles[i] =
                             [pre.missiles[i] EXCEPT !.life = @ - last.dt,
                                                     !.active = FALSE]
          /\ Expiring(pre.missiles, FALSE, last.dt) = Flying(pre.missiles, FALSE)
                => stage.fought.enemies = stage.shot.enemies
          /\ Expiring(pre.missiles, TRUE, last.dt) = Flying(pre.missiles, TRUE)
                => Health(stage.fought.player) = Health(stage.shot.player)

\* a missile of the enemies and one of the player have expired in a frame
\* at the end of which they would have been within reach of the player and
\* of an enemy
C29_Witness ==
    /\ PlayedFrame /\ last.dt > 0
    /\ stage.shot.player.invTimer <= 0
    /\ \E i \in Expiring(pre.missiles, TRUE, last.dt) :
          NearPlayer(stage.shot, Moved(pre.missiles[i], last.dt), MISSILE_HIT_R)
    /\ \E i \in Expiring(pre.missiles, FALSE, last.dt) :
          \E j \in 1..Len(stage.shot.enemies) :
              /\ stage.shot.enemies[j].active
              /\ dist2D(Moved(pre.missiles[i], last.dt).x,
                        Moved(pre.missiles[i], last.dt).y,
                        stage.shot.enemies[j].x, stage.shot.enemies[j].y)
                    < Du(MISSILE_HIT_R)
    /\ Health(stage.fought.player) = Health(stage.shot.player)
    /\ stage.fought.enemies = stage.shot.enemies

(***************************************************************************)
(* The pools at the end of a frame                                         *)
(***************************************************************************)
\* every record of the pool rs is active
AllActive(rs) == \A i \in 1..Len(rs) : rs[i].active

\* C30: at the end of a frame every bullet, missile, enemy and pickup left
\* in its pool is active, and every explosion left has a life above 0.
C30_PoolsCompacted ==
    PlayedFrame =>
        /\ AllActive(g.bullets) /\ AllActive(g.missiles)
        /\ AllActive(g.enemies) /\ AllActive(g.powerups)
        /\ \A k \in 1..Len(g.explosions) : g.explosions[k].life > 0

\* a frame in which a bullet was deactivated and an explosion ran out
C30_Witness ==
    /\ PlayedFrame
    /\ ~AllActive(stage.fought.bullets)
    /\ \E k \in 1..Len(pre.explosions) : pre.explosions[k].life <= last.dt
    /\ Len(g.bullets) < Len(stage.fought.bullets)

\* the projectile r lies within margin units of the play area
InArea(r, margin) ==
    /\ r.x >= Du(-margin) /\ r.x <= Du(SCREEN_W + margin)
    /\ r.y >= Du(-margin) /\ r.y <= Du(PLAY_H + margin)

\* every record of the pool rs lies within margin units of the play area
AllInArea(rs, margin) == \A i \in 1..Len(rs) : InArea(rs[i], margin)

C32_GameOverIffNoLives ==
    /\ (g.state = STATE_GAMEOVER) <=> (g.player.lives = 0)
    /\ g.state \in {STATE_MENU, STATE_PLAYING, STATE_PAUSED} => g.player.lives >= 1

\* a missile has taken the last life and ended the session
C32_Witness ==
    /\ PlayedFrame /\ pre.player.lives = 1
    /\ stage.shot.state = STATE_PLAYING
    /\ g.state = STATE_GAMEOVER /\ g.player.lives = 0

(***************************************************************************)
(* The enemy pool                                                          *)
(***************************************************************************)
\* the active bosses (by index) of the pool es
ActiveBosses(es) == { j \in 1..Len(es) : es[j].active /\ es[j].type = 3 }

\* C33: the enemy pool holds at most one active boss, in every state and
\* at every stage of a frame, and the latch is set whenever it holds one.
C33_OneBoss ==
    /\ \A G \in {g, stage.spawned, stage.shot, stage.fought} :
          /\ Cardinality(ActiveBosses(G.enemies)) <= 1
          /\ ActiveBosses(G.enemies) # {} => G.bossAlive

\* a frame past the boss time has begun and ended with the boss in the pool
C33_Witness ==
    /\ PlayedFrame /\ pre.gameTime > TIME_BOSS
    /\ ActiveBosses(pre.enemies) # {}
    /\ Cardinality(ActiveBosses(g.enemies)) = 1

\* the bullets (by index) that the bullet loop of the last frame has spent
\* on the player
HitBullets ==
    { i \in 1..Len(stage.spawned.bullets) :
        /\ stage.spawned.bullets[i].active /\ stage.spawned.bullets[i].isEnemy
        /\ ~stage.shot.bullets[i].active
        /\ ~BulletOut(stage.shot.bullets[i]) }

\* the missiles (by index) that the missile loop of the last frame has
\* spent on the player
HitMissiles ==
    { i \in 1..Len(stage.shot.missiles) :
        /\ stage.shot.missiles[i].active /\ stage.shot.missiles[i].isEnemy
        /\ ~stage.fought.missiles[i].active
        /\ stage.fought.missiles[i].life > 0
        /\ ~MissileOut(stage.fought.missiles[i]) }

\* the last step was the restart of a session
Restarted == pre.state = STATE_GAMEOVER /\ g.state = STATE_PLAYING

\* C34: the lives never exceed 3 and within a session never grow; a frame
\* takes at most one life and spends at most one bullet or missile of the
\* enemies on the player.
C34_LivesOnlyFall ==
    /\ g.player.lives <= PLAYER_LIVES
    /\ ~Restarted => g.player.lives <= pre.player.lives
    /\ PlayedFrame =>
          /\ g.player.lives >= pre.player.lives - 1
          /\ Cardinality(HitBullets) + Cardinality(HitMissiles) <= 1

\* a frame in which a bullet has hit the player and a missile within
\* reach of the player flies on
C34_Witness ==
    /\ PlayedFrame
    /\ Cardinality(HitBullets) = 1
    /\ \E i \in 1..Len(stage.fought.missiles) :
          /\ stage.fought.missiles[i].active /\ stage.fought.missiles[i].isEnemy
          /\ NearPlayer(stage.fought, stage.fought.missiles[i], MISSILE_HIT_R)

\* C35: an enemy in the pool never has more than its maximal hit points and
\* is active exactly while it has hit points left; inside a frame an enemy
\* without hit points is inactive; at the end of a frame every enemy in
\* the pool is active, with 0 < hp <= maxHp.
C35_EnemyHealth ==
    /\ \A j \in 1..Len(g.enemies) :
          /\ g.enemies[j].hp <= g.enemies[j].maxHp
          /\ g.enemies[j].active <=> g.enemies[j].hp > 0
    /\ \A G \in {stage.shot, stage.fought} :
          \A j \in 1..Len(G.enemies) : G.enemies[j].hp <= 0 => ~G.enemies[j].active
    /\ PlayedFrame =>
          \A j \in 1..Len(g.enemies) :
              /\ g.enemies[j].active
              /\ g.enemies[j].hp > 0 /\ g.enemies[j].hp <= g.enemies[j].maxHp

\* a frame has removed an enemy that a bomb had killed and has kept another
C35_Witness ==
    /\ PlayedFrame
    /\ \E j \in 1..Len(pre.enemies) : ~pre.enemies[j].active /\ pre.enemies[j].hp <= 0
    /\ Len(g.enemies) > 0 /\ Len(g.enemies) < Len(pre.enemies)

(***************************************************************************)
(* The restart                                                             *)
(***************************************************************************)
\* C36: right after the restart of a session the two spawn accumulators,
\* the combo, the combo timer and the shake timer have the values of a
\* first session, which are 0.
C36_RestartAsFirst ==
    Restarted =>
        /\ g.enemySpawnTimer = NewGame.enemySpawnTimer
        /\ g.powerupSpawnTimer = NewGame.powerupSpawnTimer
        /\ g.combo = NewGame.combo
        /\ g.comboTimer = NewGame.comboTimer
        /\ g.shakeTimer = NewGame.shakeTimer

(***************************************************************************)
(* Arrival of enemies                                                      *)
(***************************************************************************)
\* the frames the longest spawn interval takes at the capped frame time
SpawnFrames == SPAWN_INTERVAL \div DT_CAP + 1

\* the spawn code of the last frame has added an enemy
NewEnemy == PlayedFrame /\ BossesSpawned + JetsSpawned > 0

\* C37: from a Playing state with no active boss in the pool, with frames
\* of dt > 0 following one another, an enemy is spawned or the session
\* leaves Playing.  The states are those that leave the run the frames of
\* the longest spawn interval.
C37_EnemiesKeepArriving ==
    []( ( /\ g.state = STATE_PLAYING
          /\ ActiveBosses(g.enemies) = {}
          /\ frames + SpawnFrames <= MaxLiveFrames )
            => <>(NewEnemy \/ g.state # STATE_PLAYING) )

=============================================================================
